---- MODULE Spec2Model ----
(***************************************************************************)
(* State-machine model of the RED calculation binding layer                *)
(* (src/calculator.py, class REDLibrary) and of the environment it binds   *)
(* to: the native module's exported functions and the specification        *)
(* document on disk.                                                       *)
(*                                                                         *)
(* Floating-point quantities (flow, UVT, lamp drive, dose, watts) are      *)
(* integers counting hundredths: 100.0 is 10000.  round(x, 1) is Round1.   *)
(* The double returned by the native RED function is a record that can     *)
(* also be the IEEE not-a-number value.                                    *)
(***************************************************************************)
EXTENDS Integers, Sequences, FiniteSets, TLC

\* ------------------------------------------------------------------ bounds
\* Largest lamp count the native lamp-count function reports.
MaxLamps == 2
\* Largest number of entries of a specific_lamps mapping.
MaxSpecific == 2

\* ------------------------------------------------------- program constants
\* CONFIG.RED_CALCULATOR_DEFAULT_DRIVE = 100 [%], in hundredths.
RED_CALCULATOR_DEFAULT_DRIVE == 10000
\* CONFIG.RED_CALCULATOR_DEFAULT_EFFICIENCY = 100 [%], in hundredths.
RED_CALCULATOR_DEFAULT_EFFICIENCY == 10000

\* "if file_size > 100" of _get_library_path [bytes].
MinLibrarySize == 100

\* ------------------------------------------------------------ Python values
\* round(x, 1) on a value in hundredths: to the nearest tenth, ties to even.
Round1(x) ==
    LET q == x \div 10
        r == x % 10
    IN  IF r < 5 THEN q * 10
        ELSE IF r > 5 THEN (q + 1) * 10
        ELSE IF q % 2 = 0 THEN q * 10 ELSE (q + 1) * 10

\* A C double as ctypes hands it back: a number or NaN.
Dbl(v) == [nan |-> FALSE, v |-> v]
NaN == [nan |-> TRUE, v |-> 0]
\* Python's  d <= 0  on a float: every comparison with NaN is False.
DblLeqZero(d) == ~d.nan /\ d.v <= 0
\* round(d, 1) on a float: round(nan, 1) is nan.
DblRound1(d) == IF d.nan THEN d ELSE Dbl(Round1(d.v))

\* The strings int() accepts here, with their values; any other string
\* raises ValueError.
IntLiterals == (-1) .. (MaxLamps + MaxSpecific + 1)
\* int(s): [ok, val]; ok = FALSE stands for ValueError.
IntOfStr(s) ==
    IF \E i \in IntLiterals : ToString(i) = s
    THEN [ok |-> TRUE, val |-> CHOOSE i \in IntLiterals : ToString(i) = s]
    ELSE [ok |-> FALSE, val |-> 0]

\* ------------------------------------------------------ settings objects
\* A power_settings / efficiency_settings argument: None, or a dict that
\* may carry 'all_lamps' (a number) and 'specific_lamps' (a dict from
\* string keys to numbers, here the sequence of its items in iteration
\* order).  allFirst records the order of the two keys in the dict.
NoneSettings ==
    [isNone |-> TRUE, hasAll |-> FALSE, all |-> 0,
     hasSpecific |-> FALSE, specific |-> <<>>, allFirst |-> TRUE]
EmptyDict ==
    [isNone |-> FALSE, hasAll |-> FALSE, all |-> 0,
     hasSpecific |-> FALSE, specific |-> <<>>, allFirst |-> TRUE]
AllLamps(v) == [EmptyDict EXCEPT !.hasAll = TRUE, !.all = v]
\* Python truthiness of a settings argument: None and {} are falsy.
Truthy(s) == ~s.isNone /\ (s.hasAll \/ s.hasSpecific)
\* Python's  s or d.
OrElse(s, d) == IF Truthy(s) THEN s ELSE d

\* ------------------------------------------------------------- environment
\* System identifiers used by requests: known to the native module and the
\* catalog, to the native module only, to the catalog only, to neither.
SysBoth == "RZ-104-11"
SysIndexOnly == "RZM-200-3"
SysCatalogOnly == "RZMW-350-11"
SysNeither == "XX-1"
RequestSystems == {SysBoth, SysIndexOnly, SysCatalogOnly, SysNeither}

\* The array of char* the native enumeration hands back (a NULL, empty or
\* undecodable entry is ""), or <<>> for a null pointer / zero count.
NativeSystemLists == {<<>>, <<"">>, <<SysIndexOnly, "", SysBoth>>}

\* Symbols of the native module that _setup_functions resolves.
RequiredExports ==
    {"init_system_config", "get_supported_systems", "get_lamp_count",
     "getREDFunction", "validate_parameters", "get_lamp_power"}
\* Which of them a native module file may export.
ExportTables ==
    {RequiredExports,
     RequiredExports \ {"validate_parameters"},
     RequiredExports \ {"init_system_config"}}

\* ------------------------------------------------ the server's configuration
\* The attributes class Config defines (src/config.py).
ConfigAttributes ==
    {"RED_CALCULATOR_DEFAULT_DRIVE", "RED_CALCULATOR_DEFAULT_EFFICIENCY",
     "RESOURCES_Path", "LOGS_Path", "API_HOST", "API_PORT", "API_DEBUG",
     "CALCULATE_ENDPOINT", "HEALTH_ENDPOINT", "PRESSURE_DROP_ENDPOINT",
     "DEFAULT_UVT215", "DEFAULT_D1LOG", "APPLICATION_TYPES", "POSITION_TYPES",
     "LAMP_TYPES", "FLOW_UNITS", "mongo_uri", "mongo_db", "mongo_collection"}
\* What CONFIG holds when server.py is imported: the attributes of
\* config.py, or those and LOGIN_ENDPOINT, which server.py reads and the
\* tests take to be '/login'.
ConfigStates == {ConfigAttributes, ConfigAttributes \cup {"LOGIN_ENDPOINT"}}
EndpointPath(attr) ==
    CASE attr = "CALCULATE_ENDPOINT" -> "/calculate"
      [] attr = "HEALTH_ENDPOINT" -> "/health"
      [] attr = "PRESSURE_DROP_ENDPOINT" -> "/pressure-drop"
      [] attr = "LOGIN_ENDPOINT" -> "/login"
APPLICATION_TYPES == {"Full Range", "Municipal EPA", "Dechlorination"}
POSITION_TYPES == {"Vertical", "Horizontal"}
\* uvt215 and d1_log when the request leaves them out.
DEFAULT_UVT215 == -100
DEFAULT_D1LOG == 1800
\* The route decorators of server.py in the order they are executed: the
\* path is a literal, or read from the attribute attr of CONFIG.
RouteDeclarations ==
    << [method |-> "GET", attr |-> "HEALTH_ENDPOINT", path |-> "",
        handler |-> "health_check"],
       [method |-> "POST", attr |-> "CALCULATE_ENDPOINT", path |-> "",
        handler |-> "calculate"],
       [method |-> "GET", attr |-> "", path |-> "/system/{system_type}/ranges",
        handler |-> "get_parameter_ranges"],
       [method |-> "GET", attr |-> "", path |-> "/systems/supported",
        handler |-> "get_supported_systems"],
       [method |-> "POST", attr |-> "PRESSURE_DROP_ENDPOINT", path |-> "",
        handler |-> "calculate_pressure_drop"],
       [method |-> "POST", attr |-> "LOGIN_ENDPOINT", path |-> "",
        handler |-> "login"] >>

\* platform.system()
Platforms == {"Windows", "Linux"}
\* The names _get_library_path tries: lib_name on Windows, possible_names
\* (in this order) elsewhere; and the JSON dependency next to them.
WindowsName == "red_api.dll"
PossibleNames == <<"libred_api.so", "libred_api.so.1", "libred_api.so.1.0">>
JsonName(plat) == IF plat = "Windows" THEN "libjson-c.dll" ELSE "libjson-c.so"
FileNames ==
    {WindowsName, "libjson-c.dll", "libjson-c.so"}
    \cup {PossibleNames[i] : i \in 1 .. Len(PossibleNames)}
\* A path of the resources directory: whether exists() is true, what
\* stat().st_size is, and whether stat() raises (the file went away or
\* cannot be read after exists() answered).
Absent == [exists |-> FALSE, size |-> 0, statFails |-> FALSE]
Sized(n) == [exists |-> TRUE, size |-> n, statFails |-> FALSE]
Unreadable == [exists |-> TRUE, size |-> 0, statFails |-> TRUE]
\* States of a candidate file: missing, empty, at the size limit, above it,
\* unreadable.
CandidateStates ==
    {Absent, Sized(0), Sized(MinLibrarySize), Sized(MinLibrarySize + 1),
     Unreadable}
\* The resources directories a platform can present: only that platform's
\* names are there.
Directories(plat) ==
    {fs \in [FileNames -> CandidateStates] :
        \A n \in FileNames :
            IF plat = "Windows"
            THEN /\ n \notin {WindowsName, JsonName(plat)} => fs[n] = Absent
                 /\ n = JsonName(plat)
                      => fs[n] \in {Absent, Sized(MinLibrarySize + 1)}
            ELSE /\ n \in {WindowsName, "libjson-c.dll"} => fs[n] = Absent
                 /\ n = JsonName(plat)
                      => fs[n] \in {Absent, Sized(MinLibrarySize + 1)}}
\* A deployed Linux directory: the symlink name and the JSON dependency.
DeployedDirectory ==
    [n \in FileNames |->
       IF n \in {"libred_api.so", "libjson-c.so"}
       THEN Sized(MinLibrarySize + 1) ELSE Absent]
\* os.getcwd() of the process and the directory of the module.
StartDir == "/app"
ResourcesDir == "/app/resources"

\* supported_systems.json: operational limits per system type.
Limits(fmin, fmax, umin, umax) ==
    [flow |-> [min |-> fmin, max |-> fmax, unit |-> "m3/h"],
     uvt |-> [min |-> umin, max |-> umax, unit |-> "%-1cm"]]
CatalogDocument ==
    [exists |-> TRUE, hasTop |-> TRUE,
     systems |-> [s \in {SysBoth, SysCatalogOnly} |->
                    [hasLimits |-> TRUE,
                     limits |-> IF s = SysBoth
                                THEN Limits(1000, 10000, 4000, 9800)
                                ELSE Limits(2000, 50000, 5000, 9900)]]]

\* The file is not there (or cannot be parsed: both make
\* _load_system_specifications return {}).
MissingDocument == [exists |-> FALSE, hasTop |-> FALSE, systems |-> <<>>]
\* A JSON document without the key 'supported_systems'.
NoTopKeyDocument == [exists |-> TRUE, hasTop |-> FALSE, systems |-> <<>>]
\* The document after an edit: other limits for SysBoth, and SysCatalogOnly
\* taken out.
RevisedDocument ==
    [exists |-> TRUE, hasTop |-> TRUE,
     systems |-> [s \in {SysBoth} |->
                    [hasLimits |-> TRUE,
                     limits |-> Limits(500, 20000, 3000, 9900)]]]
Documents ==
    {CatalogDocument, MissingDocument, NoTopKeyDocument, RevisedDocument}

\* -------------------------------------------------------------- requests
\* Keys of a specific_lamps mapping: 1-based lamp numbers as strings, among
\* them 0, a negative one and one above every lamp count, and a non-number.
LampKeys == {ToString(i) : i \in (-1) .. (MaxLamps + 1)} \cup {"x"}
\* The items of a specific_lamps dict in iteration order: distinct keys; the
\* value at position i is (49 + i) %.
ItemSeqs ==
    UNION {{[i \in 1 .. m |-> [key |-> f[i], value |-> 4900 + 100 * i]] :
              f \in {g \in [1 .. m -> LampKeys] :
                        \A i, j \in 1 .. m : i # j => g[i] # g[j]}} :
           m \in 0 .. MaxSpecific}
SettingsObjects ==
    {NoneSettings}
    \cup {[isNone |-> FALSE, hasAll |-> a, all |-> IF a THEN 9000 ELSE 0,
           hasSpecific |-> FALSE, specific |-> <<>>, allFirst |-> TRUE] :
             a \in BOOLEAN}
    \cup {[isNone |-> FALSE, hasAll |-> ao[1],
           all |-> IF ao[1] THEN 9000 ELSE 0,
           hasSpecific |-> TRUE, specific |-> sp, allFirst |-> ao[2]] :
             ao \in {<<FALSE, TRUE>>, <<TRUE, TRUE>>, <<TRUE, FALSE>>},
             sp \in ItemSeqs}
\* The simple shapes the other settings argument of a request takes.
BasicSettings ==
    {NoneSettings, AllLamps(8000),
     [EmptyDict EXCEPT !.hasSpecific = TRUE,
                       !.specific = <<[key |-> "1", value |-> 7000]>>]}
SettingsPairs ==
    (SettingsObjects \X BasicSettings) \cup (BasicSettings \X SettingsObjects)

\* Flow and UVT values around the limits of SysBoth: below min, at a limit
\* (min for flow, max for UVT), above max.
FlowValues == {994, 1000, 10004}
UvtValues == {3996, 9800, 9804}
\* uvt215 (-1 when not supplied) and d1_log choices.
Uvt215Values == {-100}
D1LogValues == {1800}

Requests ==
    {[system_type |-> s, flow |-> f, uvt |-> u, uvt215 |-> u2, d1_log |-> d,
      power_settings |-> pe[1], efficiency_settings |-> pe[2]] :
        s \in RequestSystems, f \in FlowValues, u \in UvtValues,
        u2 \in Uvt215Values, d \in D1LogValues, pe \in SettingsPairs}
NoRequest ==
    [system_type |-> "", flow |-> 0, uvt |-> 0, uvt215 |-> 0, d1_log |-> 0,
     power_settings |-> NoneSettings, efficiency_settings |-> NoneSettings]

\* --------------------------------------------------- specification catalog
\* _load_system_specifications: the parsed document, or {} when the file is
\* missing or unreadable.
LoadSystemSpecifications(doc) ==
    IF doc.exists
    THEN [empty |-> FALSE, hasTop |-> doc.hasTop, systems |-> doc.systems]
    ELSE [empty |-> TRUE, hasTop |-> FALSE, systems |-> <<>>]

NoRanges == [found |-> FALSE, flow |-> [min |-> 0, max |-> 0, unit |-> ""],
             uvt |-> [min |-> 0, max |-> 0, unit |-> ""]]
\* get_parameter_ranges: found = FALSE stands for None.
GetParameterRanges(doc, system_type) ==
    LET specs == LoadSystemSpecifications(doc)
    IN  IF specs.empty \/ ~specs.hasTop THEN NoRanges
        ELSE IF system_type \notin DOMAIN specs.systems THEN NoRanges
        ELSE IF ~specs.systems[system_type].hasLimits THEN NoRanges
        ELSE LET limits == specs.systems[system_type].limits
             IN  [found |-> TRUE, flow |-> limits.flow, uvt |-> limits.uvt]

\* Variant of OutOfRange: the limits themselves are rejected.
OutOfRangeExclusive(x, r) == x <= r.min \/ x >= r.max
\* x < r["min"] or x > r["max"]
OutOfRange(x, r) == x < r.min \/ x > r.max
\* validation_errors of calculate_red: a dict keyed by the offending fields.
ValidationErrors(flow, uvt, ranges) ==
    LET bad == {f \in {"flow", "uvt"} :
                  OutOfRange(IF f = "flow" THEN flow ELSE uvt, ranges[f])}
    IN  [f \in bad |->
           [value |-> Round1(IF f = "flow" THEN flow ELSE uvt),
            min |-> ranges[f].min, max |-> ranges[f].max,
            unit |-> ranges[f].unit]]

\* ------------------------------------------------------- lamp array builder
\* The loop over specific_lamps.items() (the same in the power and in the
\* efficiency block): each item is applied to the local list in turn; the
\* first bad key ends the loop.  err is "" (loop finished), "index" (the
\* else branch: offset outside 0 .. n_lamps - 1) or "value" (ValueError of
\* int()).  arr is the local list as the loop leaves it.
\* Variant of ApplySpecificLamps: an item whose key is not a lamp of the
\* system is skipped and the loop goes on.
RECURSIVE ApplySpecificLampsSkipping(_, _, _)
ApplySpecificLampsSkipping(arr, items, n_lamps) ==
    IF items = <<>> THEN [err |-> "", key |-> "", arr |-> arr]
    ELSE LET parsed == IntOfStr(Head(items).key)
             idx == parsed.val - 1
         IN  IF parsed.ok /\ 0 <= idx /\ idx < n_lamps
             THEN ApplySpecificLampsSkipping(
                      [arr EXCEPT ![idx + 1] = Head(items).value],
                      Tail(items), n_lamps)
             ELSE ApplySpecificLampsSkipping(arr, Tail(items), n_lamps)

RECURSIVE ApplySpecificLamps(_, _, _)
ApplySpecificLamps(arr, items, n_lamps) ==
    IF items = <<>> THEN [err |-> "", key |-> "", arr |-> arr]
    ELSE LET lamp_idx_str == Head(items).key
             parsed == IntOfStr(lamp_idx_str)
             idx == parsed.val - 1
         IN  IF ~parsed.ok
             THEN [err |-> "value", key |-> lamp_idx_str, arr |-> arr]
             ELSE IF 0 <= idx /\ idx < n_lamps
             THEN ApplySpecificLamps(
                      [arr EXCEPT ![idx + 1] = Head(items).value],
                      Tail(items), n_lamps)
             ELSE [err |-> "index", key |-> lamp_idx_str, arr |-> arr]

\* Variant of ProcessSettings: the two keys are handled in the order they
\* have in the dict, so a broadcast that comes second overwrites the
\* specific lamps.
ProcessSettingsInKeyOrder(defaults, settings, n_lamps) ==
    IF ~Truthy(settings) THEN [err |-> "", key |-> "", arr |-> defaults]
    ELSE LET broadcast == IF settings.hasAll
                          THEN [i \in 1 .. n_lamps |-> settings.all]
                          ELSE defaults
             res == IF settings.hasSpecific
                    THEN ApplySpecificLamps(broadcast, settings.specific,
                                            n_lamps)
                    ELSE [err |-> "", key |-> "", arr |-> broadcast]
         IN  IF settings.hasAll /\ ~settings.allFirst /\ res.err = ""
             THEN [res EXCEPT !.arr = broadcast]
             ELSE res

\* "if settings: if 'all_lamps' in settings: ...; if 'specific_lamps' in
\* settings: ..." applied to the default-initialised list.
ProcessSettings(defaults, settings, n_lamps) ==
    IF ~Truthy(settings) THEN [err |-> "", key |-> "", arr |-> defaults]
    ELSE LET broadcast == IF settings.hasAll
                          THEN [i \in 1 .. n_lamps |-> settings.all]
                          ELSE defaults
         IN  IF settings.hasSpecific
             THEN ApplySpecificLamps(broadcast, settings.specific, n_lamps)
             ELSE [err |-> "", key |-> "", arr |-> broadcast]

\* Variant of DefaultEfficiency: the list is one element short.
DefaultEfficiencyShort(n_lamps) ==
    [i \in 1 .. (n_lamps - 1) |-> RED_CALCULATOR_DEFAULT_EFFICIENCY]
\* [CONFIG default] * n_lamps
DefaultPower(n_lamps) == [i \in 1 .. n_lamps |-> RED_CALCULATOR_DEFAULT_DRIVE]
DefaultEfficiency(n_lamps) ==
    [i \in 1 .. n_lamps |-> RED_CALCULATOR_DEFAULT_EFFICIENCY]

\* ----------------------------------------------------------------- outcomes
\* The value of a call that has not returned (Python's None).
PyNone == [none |-> TRUE]
BasicParameters(r) ==
    [system_type |-> r.system_type, flow |-> r.flow, uvt |-> r.uvt]
SystemError(r, message) ==
    [status |-> "error",
     error |-> [type |-> "system", message |-> message],
     parameters |-> BasicParameters(r)]
\* Variant of ErrSystemNotFound: the unknown system reported as a validation
\* error.
ErrSystemNotFoundAsValidation(r) ==
    [status |-> "error",
     error |-> [type |-> "validation",
                message |-> <<"System type '", r.system_type, "' not found">>],
     parameters |-> BasicParameters(r)]
ErrSystemNotFound(r) ==
    SystemError(r, <<"System type '", r.system_type, "' not found">>)
ErrNoRanges(r) ==
    SystemError(r, <<"Could not get valid parameter ranges for system ",
                     r.system_type>>)
ErrLampCount(r) ==
    SystemError(r, <<"Could not get lamp count for system ", r.system_type>>)
ErrRedFunction(r) ==
    SystemError(r, <<"Could not get RED calculation function for system ",
                     r.system_type>>)
\* The except clause at the end of calculate_red.
ErrException(r, e) == SystemError(r, <<"Calculation error: ", e>>)
FullParameters(r) ==
    [system_type |-> r.system_type, flow |-> r.flow, uvt |-> r.uvt,
     power_settings |-> OrElse(r.power_settings, EmptyDict),
     efficiency_settings |-> OrElse(r.efficiency_settings, AllLamps(8000))]
ErrValidation(r, validation_errors) ==
    [status |-> "error",
     error |-> [type |-> "validation", errors |-> validation_errors],
     parameters |-> FullParameters(r)]
\* Variant of ErrCalculation: the error value also carries a result.
ErrCalculationWithResult(r) ==
    [status |-> "error",
     result |-> Dbl(0),
     error |-> [type |-> "calculation",
                message |-> <<"Calculation resulted in invalid RED value">>],
     parameters |-> FullParameters(r)]
ErrCalculation(r) ==
    [status |-> "error",
     error |-> [type |-> "calculation",
                message |-> <<"Calculation resulted in invalid RED value">>],
     parameters |-> FullParameters(r)]
\* The two returns inside a specific_lamps loop; what is "power" or
\* "efficiency".
ErrLampSettings(r, what, res, n_lamps) ==
    [status |-> "error",
     error |-> [type |-> "validation",
                message |->
                  IF res.err = "index"
                  THEN <<"Invalid lamp index ", res.key, ". System has ",
                         ToString(n_lamps), " lamps">>
                  ELSE <<"Invalid lamp ", what, " setting for lamp ",
                         res.key>>],
     parameters |->
       IF what = "power"
       THEN [system_type |-> r.system_type, flow |-> r.flow, uvt |-> r.uvt,
             power_settings |-> r.power_settings]
       ELSE [system_type |-> r.system_type, flow |-> r.flow, uvt |-> r.uvt,
             efficiency_settings |-> r.efficiency_settings]]
Success(r, res, n, watts, pw, eff) ==
    [status |-> "success",
     result |-> DblRound1(res),
     details |->
       [system_type |-> r.system_type,
        number_of_lamps |-> n,
        lamp_power_watts |-> Round1(watts),
        parameters |->
          [flow |-> r.flow, uvt |-> r.uvt,
           uvt215 |-> IF r.uvt215 > 0 THEN [na |-> FALSE, v |-> r.uvt215]
                      ELSE [na |-> TRUE, v |-> 0],
           d1_log |-> r.d1_log],
        lamp_settings |->
          [power |-> [i \in 1 .. Len(pw) |-> Round1(pw[i])],
           efficiency |-> [i \in 1 .. Len(eff) |-> Round1(eff[i])]]]]
\* "if result <= 0" of calculate_red.
ResultInvalid(res) == DblLeqZero(res)

\* -------------------------------------------------------------------- state
VARIABLES
    document,           \* resources/supported_systems.json on disk
    firstLoad,          \* that document as the process first parsed it
    nativeExports,      \* required symbols the native module file exports
    nativeSystems,      \* what the native enumeration reports
    ctor,               \* progress of REDLibrary.__init__
    lib,                \* self.lib
    bound,              \* function attributes set on self
    supported_systems,  \* self.supported_systems
    op,                 \* the operation called last
    pc,                 \* position inside it
    req,                \* arguments of calculate_red
    ranges,             \* locals of calculate_red
    n_lamps,
    lamp_power,
    power,
    efficiency,
    result,
    outcome,            \* the value the operation returned
    escaped,            \* the exception it let out to its caller
    nativeCalls,        \* symbols resolved, native functions called and
                        \* exceptions they raised during it, in order
    redArgs,            \* arguments of the native RED call it made
    answers,            \* what the native functions returned to the calls
                        \* made since the last fresh call of calculate_red
    first,              \* request and outcome of the call that is repeated
    platform,           \* platform.system()
    files,              \* the resources directory
    cwd,                \* working directory of the process
    lpc,                \* position inside _load_library
    lib_path,           \* locals of _load_library
    original_dir,
    json_lib,           \* self._json_lib
    loadLog,            \* candidates examined, directory changes and load
                        \* attempts of _load_library, in order
    parked,             \* frame of the calculate_red call of the thread
                        \* that is not running
    thread,             \* the thread that is running
    config,             \* attributes of CONFIG
    server,             \* the server process: "absent" when the instance is
                        \* used without it
    routes,             \* routes registered on app
    calculator,         \* the global calculator of server.py
    inits,              \* calls of init_calculator
    http                \* the request being handled and its response

envVars == <<document, firstLoad, nativeExports, nativeSystems>>
libVars == <<ctor, lib, bound, supported_systems>>
localVars == <<ranges, n_lamps, lamp_power, power, efficiency, result>>
frameVars == <<op, pc, req, localVars, outcome, escaped, nativeCalls, redArgs>>
historyVars == <<answers, first>>
loaderVars ==
    <<platform, files, cwd, lpc, lib_path, original_dir, json_lib, loadLog>>
threadVars == <<parked, thread>>
\* What the process holds besides the instance.
serverVars == <<config, server, routes, calculator, inits, http>>
hostVars == <<threadVars, serverVars>>
vars == <<envVars, libVars, frameVars, historyVars, loaderVars, hostVars>>

NoRedArgs ==
    [called |-> FALSE, flow |-> 0, uvt |-> 0, uvt215 |-> 0, power |-> <<>>,
     efficiency |-> <<>>, d1_log |-> 0, n_lamps |-> 0]

\* No native function has been called yet: per function, the arguments of
\* its last call and what it returned.
Unasked ==
    [lamp_count |-> [asked |-> FALSE, args |-> "", ret |-> [fault |-> FALSE, val |-> 0]],
     lamp_power |-> [asked |-> FALSE, args |-> "", ret |-> [fault |-> FALSE, val |-> 0]],
     red_function |-> [asked |-> FALSE, args |-> "", ret |-> [fault |-> FALSE, val |-> ""]],
     red |-> [asked |-> FALSE, args |-> NoRedArgs,
              ret |-> [fault |-> FALSE, val |-> Dbl(0)]]]
\* No call is being repeated.
NoFirst == [made |-> FALSE, req |-> NoRequest, outcome |-> PyNone]

\* No second thread is inside calculate_red.
NoFrame ==
    [op |-> "", pc |-> "none", req |-> NoRequest, ranges |-> NoRanges,
     n_lamps |-> 0, lamp_power |-> 0, power |-> <<>>, efficiency |-> <<>>,
     result |-> Dbl(0), outcome |-> PyNone, escaped |-> "none",
     nativeCalls |-> <<>>, redArgs |-> NoRedArgs, answers |-> Unasked]

\* The attributes _setup_functions sets, in order, each with the symbol it
\* resolves.
BindOrder ==
    << [attr |-> "get_supported_systems_func", sym |-> "get_supported_systems"],
       [attr |-> "get_lamp_count_func", sym |-> "get_lamp_count"],
       [attr |-> "get_red_function", sym |-> "getREDFunction"],
       [attr |-> "validate_parameters_func", sym |-> "validate_parameters"],
       [attr |-> "get_lamp_power_func", sym |-> "get_lamp_power"] >>
FunctionAttributes == {BindOrder[i].attr : i \in 1 .. Len(BindOrder)}
\* Methods the class REDLibrary defines.
REDLibraryMethods ==
    {"__init__", "_load_library", "_get_library_path", "get_n_lamps",
     "get_grouped_supported_systems", "_get_supported_systems",
     "_init_system_config", "_setup_functions", "get_parameter_ranges",
     "_load_system_specifications", "calculate_red"}

\* No request is being handled.
NoHttp ==
    [handler |-> "", hpc |-> "idle", payload |-> PyNone, called |-> FALSE,
     status |-> 0, body |-> PyNone]
\* The instance is constructed and used without the server (main() of
\* calculator.py, the tests).
NoServer ==
    /\ config = ConfigAttributes
    /\ server = "absent"
    /\ routes = <<>>
    /\ calculator = "None"
    /\ inits = 0
    /\ http = NoHttp

\* The instance as __init__ finds it, and _load_library not yet called.
InitInstance ==
    /\ cwd = StartDir
    /\ lpc = "idle"
    /\ lib_path = "None"
    /\ original_dir = ""
    /\ json_lib = "None"
    /\ loadLog = <<>>
    /\ ctor = "new"
    /\ lib = "None"
    /\ bound = {}
    /\ supported_systems = <<>>
    /\ op = "__init__"
    /\ pc = "idle"
    /\ req = NoRequest
    /\ ranges = NoRanges
    /\ n_lamps = 0
    /\ lamp_power = 0
    /\ power = <<>>
    /\ efficiency = <<>>
    /\ result = Dbl(0)
    /\ outcome = PyNone
    /\ escaped = "none"
    /\ nativeCalls = <<>>
    /\ redArgs = NoRedArgs
    /\ answers = Unasked
    /\ first = NoFirst
    /\ parked = NoFrame
    /\ thread = 1

Init ==
    /\ document = CatalogDocument
    /\ firstLoad = document
    /\ nativeExports \in ExportTables
    /\ nativeSystems \in NativeSystemLists
    /\ platform = "Linux"
    /\ files = DeployedDirectory
    /\ NoServer
    /\ InitInstance

\* ------------------------------------------------------------- construction
\* __init__, first part: self.lib = self._load_library(); None raises.  What
\* _load_library returns is an input here.
InitLoad ==
    /\ ctor = "new"
    /\ server \in {"absent", "starting"}
    /\ \E loaded \in BOOLEAN :
         IF loaded
         THEN /\ lib' = "CDLL"
              /\ ctor' = "loaded"
              /\ escaped' = escaped
         ELSE /\ lib' = "None"
              /\ ctor' = "failed"
              /\ escaped' = "RuntimeError"
    /\ UNCHANGED <<envVars, hostVars, loaderVars, historyVars, bound,
                   supported_systems, op, pc, req, localVars, outcome,
                   nativeCalls, redArgs>>

\* The first i entries of BindOrder resolve.
Resolves(i) == \A j \in 1 .. i : BindOrder[j].sym \in nativeExports
\* Number of attributes _setup_functions sets before it stops.
BoundCount ==
    CHOOSE i \in 0 .. Len(BindOrder) :
        /\ Resolves(i)
        /\ i < Len(BindOrder) => BindOrder[i + 1].sym \notin nativeExports
\* What _setup_functions returns once init_config has succeeded.
AllSymbolsResolve == BoundCount = Len(BindOrder)

\* Variant of SetupFunctions: the attributes are bound first and init_config
\* is resolved and invoked last.
SetupFunctionsInitLast ==
    /\ ctor = "loaded"
    /\ \E init_ok \in BOOLEAN :
         /\ nativeCalls' =
              nativeCalls
              \o [i \in 1 .. Len(BindOrder) |-> "resolve:" \o BindOrder[i].sym]
              \o <<"resolve:init_system_config", "call:init_system_config">>
              \o (IF init_ok THEN <<>> ELSE <<"false:init_system_config">>)
         /\ bound' = FunctionAttributes
         /\ IF init_ok
            THEN ctor' = "bound" /\ escaped' = escaped
            ELSE ctor' = "failed" /\ escaped' = "RuntimeError"
    /\ UNCHANGED <<envVars, hostVars, loaderVars, historyVars, lib,
                   supported_systems, op, pc, req, localVars, outcome,
                   redArgs>>

\* __init__, second part: _setup_functions() with _init_system_config();
\* False raises.  init_config is resolved and called first; then the
\* attributes are set in order until a symbol is missing.
SetupFunctions ==
    /\ ctor = "loaded"
    /\ \E init_ok \in BOOLEAN :
         IF ~document.exists
         THEN /\ nativeCalls' = nativeCalls
              /\ bound' = bound
              /\ ctor' = "failed"
              /\ escaped' = "RuntimeError"
         ELSE IF "init_system_config" \notin nativeExports
         THEN /\ nativeCalls' = Append(nativeCalls, "resolve:init_system_config")
              /\ bound' = bound
              /\ ctor' = "failed"
              /\ escaped' = "RuntimeError"
         ELSE IF ~init_ok
         THEN /\ nativeCalls' = nativeCalls \o <<"resolve:init_system_config",
                                                 "call:init_system_config",
                                                 "false:init_system_config">>
              /\ bound' = bound
              /\ ctor' = "failed"
              /\ escaped' = "RuntimeError"
         ELSE /\ nativeCalls' =
                   nativeCalls
                   \o <<"resolve:init_system_config", "call:init_system_config">>
                   \o [i \in 1 .. (IF AllSymbolsResolve THEN BoundCount
                                    ELSE BoundCount + 1) |->
                         "resolve:" \o BindOrder[i].sym]
              /\ bound' = {BindOrder[i].attr : i \in 1 .. BoundCount}
              /\ IF AllSymbolsResolve
                 THEN ctor' = "bound" /\ escaped' = escaped
                 ELSE ctor' = "failed" /\ escaped' = "RuntimeError"
    /\ UNCHANGED <<envVars, hostVars, loaderVars, historyVars, lib,
                   supported_systems, op, pc, req, localVars, outcome,
                   redArgs>>

\* _get_supported_systems: the decoded non-null entries; [] for a null
\* pointer, a zero count or any exception.
GetSupportedSystems(fault) ==
    IF fault \/ "get_supported_systems_func" \notin bound THEN <<>>
    ELSE SelectSeq(nativeSystems, LAMBDA s : s # "")

\* Variant of InitSupportedSystems: an empty list is accepted.
InitSupportedSystemsUnchecked ==
    /\ ctor = "bound"
    /\ \E fault \in BOOLEAN :
         /\ supported_systems' = GetSupportedSystems(fault)
         /\ nativeCalls' = Append(nativeCalls, "call:get_supported_systems")
         /\ ctor' = "ready" /\ escaped' = escaped
    /\ UNCHANGED <<envVars, hostVars, loaderVars, historyVars, lib, bound, op,
                   pc, req, localVars, outcome, redArgs>>

\* __init__, last part: self.supported_systems = ...; an empty list raises.
InitSupportedSystems ==
    /\ ctor = "bound"
    /\ \E fault \in BOOLEAN :
         LET systems == GetSupportedSystems(fault)
         IN  /\ supported_systems' = systems
             /\ nativeCalls' = Append(nativeCalls, "call:get_supported_systems")
             /\ IF systems = <<>>
                THEN ctor' = "failed" /\ escaped' = "RuntimeError"
                ELSE ctor' = "ready" /\ escaped' = escaped
    /\ UNCHANGED <<envVars, hostVars, loaderVars, historyVars, lib, bound, op,
                   pc, req, localVars, outcome, redArgs>>

\* --------------------------------------------------------------- operations
\* A constructed instance on which no operation is running.
CanCall == ctor = "ready" /\ pc = "idle"
\* The frame of a call as it begins.
Begin(name, r) ==
    /\ op' = name
    /\ req' = r
    /\ ranges' = NoRanges
    /\ n_lamps' = 0
    /\ lamp_power' = 0
    /\ power' = <<>>
    /\ efficiency' = <<>>
    /\ result' = Dbl(0)
    /\ redArgs' = NoRedArgs
Return(value) == outcome' = value /\ pc' = "done"

\* What a native call hands back to Python: a value, or a raised exception.
Value(v) == [fault |-> FALSE, val |-> v]
LampCountReturns == {Value(n) : n \in 0 .. MaxLamps} \cup {[fault |-> TRUE, val |-> 0]}
LampPowerReturns == {Value(32004), [fault |-> TRUE, val |-> 0]}
\* getREDFunction: a callable ("func"), a null pointer ("null"), or a fault.
RedFunctionReturns == {Value("func"), Value("null"), [fault |-> TRUE, val |-> ""]}
RedReturns ==
    {Value(Dbl(v)) : v \in {-100, 0, 4, 123456}}
    \cup {Value(NaN), [fault |-> TRUE, val |-> Dbl(0)]}

\* The native module is a set of functions: called again with the arguments
\* of its last call, a function returns what it returned then; otherwise any
\* of its possible results.
NativeAnswers(fn, args, all) ==
    IF answers[fn].asked /\ answers[fn].args = args
    THEN {answers[fn].ret}
    ELSE all
Remember(fn, args, r) ==
    answers' = [answers EXCEPT ![fn] = [asked |-> TRUE, args |-> args, ret |-> r]]

\* system_type in self.supported_systems
InSupportedSystems(system_type) ==
    \E i \in 1 .. Len(supported_systems) : supported_systems[i] = system_type

\* calculate_red is called.
CallCalculateRed ==
    /\ CanCall
    /\ \E r \in Requests : Begin("calculate_red", r)
    /\ pc' = "check_system"
    /\ outcome' = PyNone
    /\ escaped' = "none"
    /\ nativeCalls' = <<>>
    /\ answers' = Unasked
    /\ first' = NoFirst
    /\ UNCHANGED <<envVars, hostVars, loaderVars, libVars>>

\* Variant of CheckSystem: the membership test is left out.
CheckSystemOmitted ==
    /\ op = "calculate_red" /\ pc = "check_system"
    /\ pc' = "get_ranges"
    /\ UNCHANGED <<envVars, hostVars, loaderVars, historyVars, libVars, op,
                   req, localVars, outcome, escaped, nativeCalls, redArgs>>

\* Variant of CheckSystem: a system that passes the test is taken out of
\* self.supported_systems.
CheckSystemConsuming ==
    /\ op = "calculate_red" /\ pc = "check_system"
    /\ IF ~InSupportedSystems(req.system_type)
       THEN Return(ErrSystemNotFound(req))
            /\ supported_systems' = supported_systems
       ELSE /\ pc' = "get_ranges" /\ outcome' = outcome
            /\ supported_systems' =
                 SelectSeq(supported_systems, LAMBDA x : x # req.system_type)
    /\ UNCHANGED <<envVars, hostVars, loaderVars, historyVars, ctor, lib,
                   bound, op, req, localVars, escaped, nativeCalls, redArgs>>

\* "if system_type not in self.supported_systems: return ..."
CheckSystem ==
    /\ op = "calculate_red" /\ pc = "check_system"
    /\ IF ~InSupportedSystems(req.system_type)
       THEN Return(ErrSystemNotFound(req))
       ELSE pc' = "get_ranges" /\ outcome' = outcome
    /\ UNCHANGED <<envVars, hostVars, loaderVars, historyVars, libVars, op,
                   req, localVars, escaped, nativeCalls, redArgs>>

\* "ranges = self.get_parameter_ranges(system_type); if ranges is None: ..."
GetRanges ==
    /\ op = "calculate_red" /\ pc = "get_ranges"
    /\ ranges' = GetParameterRanges(document, req.system_type)
    /\ IF ~ranges'.found
       THEN Return(ErrNoRanges(req))
       ELSE pc' = "validate" /\ outcome' = outcome
    /\ UNCHANGED <<envVars, hostVars, loaderVars, historyVars, libVars, op,
                   req, n_lamps, lamp_power, power, efficiency, result,
                   escaped, nativeCalls, redArgs>>

\* Variant of ValidateRanges: the call goes on to the lamp count whatever
\* the bounds check found.
ValidateRangesSkipping ==
    /\ op = "calculate_red" /\ pc = "validate"
    /\ pc' = "lamp_count"
    /\ UNCHANGED <<envVars, hostVars, loaderVars, historyVars, libVars, op,
                   req, localVars, outcome, escaped, nativeCalls, redArgs>>

\* The bounds check of flow and uvt.
ValidateRanges ==
    /\ op = "calculate_red" /\ pc = "validate"
    /\ LET validation_errors == ValidationErrors(req.flow, req.uvt, ranges)
       IN  IF DOMAIN validation_errors # {}
           THEN Return(ErrValidation(req, validation_errors))
           ELSE pc' = "lamp_count" /\ outcome' = outcome
    /\ UNCHANGED <<envVars, hostVars, loaderVars, historyVars, libVars, op,
                   req, localVars, escaped, nativeCalls, redArgs>>

\* Variant of GetLampCount: a zero count is not rejected.
GetLampCountUnchecked ==
    /\ op = "calculate_red" /\ pc = "lamp_count"
    /\ \E r \in NativeAnswers("lamp_count", req.system_type, LampCountReturns) :
         /\ Remember("lamp_count", req.system_type, r)
         /\ nativeCalls' = nativeCalls \o
                (IF r.fault THEN <<"call:get_lamp_count", "raise:get_lamp_count">>
                 ELSE <<"call:get_lamp_count">>)
         /\ IF r.fault
            THEN Return(ErrException(req, "native fault")) /\ n_lamps' = n_lamps
            ELSE /\ n_lamps' = r.val
                 /\ pc' = "lamp_power" /\ outcome' = outcome
    /\ UNCHANGED <<envVars, hostVars, loaderVars, first, libVars, op, req,
                   ranges, lamp_power, power, efficiency, result, escaped,
                   redArgs>>

\* "n_lamps = self.get_lamp_count_func(...); if not n_lamps: return ..."
GetLampCount ==
    /\ op = "calculate_red" /\ pc = "lamp_count"
    /\ IF "get_lamp_count_func" \notin bound
       THEN /\ Return(ErrException(req, "AttributeError"))
            /\ UNCHANGED <<n_lamps, nativeCalls, answers>>
       ELSE \E r \in NativeAnswers("lamp_count", req.system_type,
                                   LampCountReturns) :
              /\ Remember("lamp_count", req.system_type, r)
              /\ nativeCalls' = nativeCalls \o
                     (IF r.fault THEN <<"call:get_lamp_count", "raise:get_lamp_count">>
                      ELSE <<"call:get_lamp_count">>)
              /\ IF r.fault
                 THEN Return(ErrException(req, "native fault")) /\ n_lamps' = n_lamps
                 ELSE /\ n_lamps' = r.val
                      /\ IF r.val = 0
                         THEN Return(ErrLampCount(req))
                         ELSE pc' = "lamp_power" /\ outcome' = outcome
    /\ UNCHANGED <<envVars, hostVars, loaderVars, first, libVars, op, req,
                   ranges, lamp_power, power, efficiency, result, escaped,
                   redArgs>>

\* "lamp_power = self.get_lamp_power_func(...)"
GetLampPower ==
    /\ op = "calculate_red" /\ pc = "lamp_power"
    /\ IF "get_lamp_power_func" \notin bound
       THEN /\ Return(ErrException(req, "AttributeError"))
            /\ UNCHANGED <<lamp_power, nativeCalls, answers>>
       ELSE \E r \in NativeAnswers("lamp_power", req.system_type,
                                   LampPowerReturns) :
              /\ Remember("lamp_power", req.system_type, r)
              /\ nativeCalls' = nativeCalls \o
                     (IF r.fault THEN <<"call:get_lamp_power", "raise:get_lamp_power">>
                      ELSE <<"call:get_lamp_power">>)
              /\ IF r.fault
                 THEN Return(ErrException(req, "native fault"))
                      /\ lamp_power' = lamp_power
                 ELSE /\ lamp_power' = r.val
                      /\ pc' = "power" /\ outcome' = outcome
    /\ UNCHANGED <<envVars, hostVars, loaderVars, first, libVars, op, req,
                   ranges, n_lamps, power, efficiency, result, escaped,
                   redArgs>>

\* Both lists are initialised with the defaults, then power_settings is
\* processed.
ProcessPowerSettings ==
    /\ op = "calculate_red" /\ pc = "power"
    /\ LET res == ProcessSettings(DefaultPower(n_lamps), req.power_settings,
                                  n_lamps)
       IN  /\ power' = res.arr
           /\ efficiency' = DefaultEfficiency(n_lamps)
           /\ IF res.err # ""
              THEN Return(ErrLampSettings(req, "power", res, n_lamps))
              ELSE pc' = "efficiency" /\ outcome' = outcome
    /\ UNCHANGED <<envVars, hostVars, loaderVars, historyVars, libVars, op,
                   req, ranges, n_lamps, lamp_power, result, escaped,
                   nativeCalls, redArgs>>

\* efficiency_settings is processed.
ProcessEfficiencySettings ==
    /\ op = "calculate_red" /\ pc = "efficiency"
    /\ LET res == ProcessSettings(efficiency, req.efficiency_settings, n_lamps)
       IN  /\ efficiency' = res.arr
           /\ IF res.err # ""
              THEN Return(ErrLampSettings(req, "efficiency", res, n_lamps))
              ELSE pc' = "red_function" /\ outcome' = outcome
    /\ UNCHANGED <<envVars, hostVars, loaderVars, historyVars, libVars, op,
                   req, ranges, n_lamps, lamp_power, power, result, escaped,
                   nativeCalls, redArgs>>

\* "red_func = self.get_red_function(...); if not red_func: return ..."
GetRedFunction ==
    /\ op = "calculate_red" /\ pc = "red_function"
    /\ IF "get_red_function" \notin bound
       THEN /\ Return(ErrException(req, "AttributeError"))
            /\ UNCHANGED <<nativeCalls, answers>>
       ELSE \E r \in NativeAnswers("red_function", req.system_type,
                                   RedFunctionReturns) :
              /\ Remember("red_function", req.system_type, r)
              /\ nativeCalls' = nativeCalls \o
                     (IF r.fault THEN <<"call:getREDFunction", "raise:getREDFunction">>
                      ELSE <<"call:getREDFunction">>)
              /\ IF r.fault
                 THEN Return(ErrException(req, "native fault"))
                 ELSE IF r.val = "null"
                 THEN Return(ErrRedFunction(req))
                 ELSE pc' = "call_red" /\ outcome' = outcome
    /\ UNCHANGED <<envVars, hostVars, loaderVars, first, libVars, op, req,
                   localVars, escaped, redArgs>>

\* The ctypes arrays built from the two lists and the arguments of the call
\* "result = red_func(flow, uvt, uvt215, power_array, efficiency_array,
\* d1_log, n_lamps)".
RedCallArguments ==
    [called |-> TRUE, flow |-> req.flow, uvt |-> req.uvt,
     uvt215 |-> req.uvt215, power |-> power, efficiency |-> efficiency,
     d1_log |-> req.d1_log, n_lamps |-> n_lamps]

CallRedFunction ==
    /\ op = "calculate_red" /\ pc = "call_red"
    /\ redArgs' = RedCallArguments
    /\ \E r \in NativeAnswers("red", RedCallArguments, RedReturns) :
         /\ Remember("red", RedCallArguments, r)
         /\ IF r.fault
            THEN /\ Return(ErrException(req, "native fault"))
                 /\ result' = result
                 /\ nativeCalls' = nativeCalls \o <<"call:red_func", "raise:red_func">>
            ELSE /\ result' = r.val
                 /\ pc' = "result" /\ outcome' = outcome
                 /\ nativeCalls' = Append(nativeCalls, "call:red_func")
    /\ UNCHANGED <<envVars, hostVars, loaderVars, first, libVars, op, req,
                   ranges, n_lamps, lamp_power, power, efficiency, escaped>>

\* "if result <= 0: return <calculation error>" else the success value.
ValidateResult ==
    /\ op = "calculate_red" /\ pc = "result"
    /\ IF ResultInvalid(result)
       THEN Return(ErrCalculation(req))
       ELSE Return(Success(req, result, n_lamps, lamp_power, power, efficiency))
    /\ UNCHANGED <<envVars, hostVars, loaderVars, historyVars, libVars, op,
                   req, localVars, escaped, nativeCalls, redArgs>>

\* Python string helpers: str.startswith and the code-point order of the
\* characters system identifiers are made of.
StartsWith(s, prefix) ==
    Len(s) >= Len(prefix) /\ SubSeq(s, 1, Len(prefix)) = prefix
CodePointOrder == "-0123456789ABCDEFGHIJKLMNOPQRSTUVWXYZ"
CharRank(c) ==
    CHOOSE i \in 1 .. Len(CodePointOrder) : SubSeq(CodePointOrder, i, i) = c
\* a < b on Python strings.
StrLess(a, b) ==
    \E k \in 1 .. Len(b) :
        /\ k - 1 <= Len(a)
        /\ SubSeq(a, 1, k - 1) = SubSeq(b, 1, k - 1)
        /\ \/ k > Len(a)
           \/ CharRank(SubSeq(a, k, k)) < CharRank(SubSeq(b, k, k))

SeriesLabels == {"RZ Series", "RZM Series", "RZMW Series", "Other Series"}
\* Variant of InSeries: the RZ series is recognised by 'RZ' without the dash.
InSeriesLoosePrefix(label, s) ==
    CASE label = "RZ Series" -> StartsWith(s, "RZ")
      [] label = "RZM Series" -> StartsWith(s, "RZM-")
      [] label = "RZMW Series" -> StartsWith(s, "RZMW-")
      [] OTHER -> ~(StartsWith(s, "RZ-") \/ StartsWith(s, "RZM-")
                    \/ StartsWith(s, "RZMW-"))
\* The predicate of each list comprehension of get_grouped_supported_systems.
InSeries(label, s) ==
    CASE label = "RZ Series" -> StartsWith(s, "RZ-")
      [] label = "RZM Series" -> StartsWith(s, "RZM-")
      [] label = "RZMW Series" -> StartsWith(s, "RZMW-")
      [] OTHER -> ~(StartsWith(s, "RZ-") \/ StartsWith(s, "RZM-")
                    \/ StartsWith(s, "RZMW-"))
\* {k: sorted(v) for k, v in series_groups.items() if v}
GroupedSystems(systems) ==
    LET members(label) == SelectSeq(systems, LAMBDA s : InSeries(label, s))
    IN  [label \in {l \in SeriesLabels : members(l) # <<>>} |->
           SortSeq(members(label), StrLess)]

\* Variant of GetGroupedSupportedSystemsOp: the fresh enumeration is stored
\* in self.supported_systems.
GetGroupedSupportedSystemsOpRefreshing ==
    /\ CanCall
    /\ Begin("get_grouped_supported_systems", NoRequest)
    /\ \E fault \in BOOLEAN :
         /\ Return(GroupedSystems(GetSupportedSystems(fault)))
         /\ supported_systems' = GetSupportedSystems(fault)
         /\ nativeCalls' =
              IF fault
              THEN <<"call:get_supported_systems",
                     "raise:get_supported_systems">>
              ELSE <<"call:get_supported_systems">>
    /\ escaped' = "none"
    /\ UNCHANGED <<envVars, hostVars, loaderVars, historyVars, ctor, lib,
                   bound>>

\* get_grouped_supported_systems: asks the native enumeration again.
GetGroupedSupportedSystemsOp ==
    /\ CanCall
    /\ Begin("get_grouped_supported_systems", NoRequest)
    /\ \E fault \in BOOLEAN :
         /\ Return(GroupedSystems(GetSupportedSystems(fault)))
         /\ nativeCalls' =
              IF fault
              THEN <<"call:get_supported_systems",
                     "raise:get_supported_systems">>
              ELSE <<"call:get_supported_systems">>
    /\ escaped' = "none"
    /\ UNCHANGED <<envVars, hostVars, loaderVars, historyVars, libVars>>

\* What the native getNLamps hands back (restype defaults to a C int).
NLampsReturns == {Value(n) : n \in 0 .. MaxLamps} \cup {[fault |-> TRUE, val |-> 0]}
\* get_n_lamps: resolves getNLamps on self.lib at call time; whether the
\* module exports that symbol is an input.
GetNLampsOp ==
    /\ CanCall
    /\ \E s \in RequestSystems, r \in NLampsReturns, exported \in BOOLEAN :
         /\ Begin("get_n_lamps", [NoRequest EXCEPT !.system_type = s])
         /\ IF lib = "None"
            THEN /\ Return([error |-> <<"Library not initialized">>])
                 /\ nativeCalls' = <<>>
            ELSE IF ~exported
            THEN /\ Return([error |-> <<"Failed to get number of lamps: ",
                                        "AttributeError">>])
                 /\ nativeCalls' = <<"resolve:getNLamps">>
            ELSE IF r.fault
            THEN /\ Return([error |-> <<"Failed to get number of lamps: ",
                                        "native fault">>])
                 /\ nativeCalls' = <<"resolve:getNLamps", "call:getNLamps">>
            ELSE /\ Return([system_type |-> s, n_lamps |-> r.val])
                 /\ nativeCalls' = <<"resolve:getNLamps", "call:getNLamps">>
    /\ escaped' = "none"
    /\ UNCHANGED <<envVars, hostVars, loaderVars, historyVars, libVars>>

\* get_parameter_ranges called by a consumer.
GetParameterRangesOp ==
    /\ CanCall
    /\ \E s \in RequestSystems :
         /\ Begin("get_parameter_ranges", [NoRequest EXCEPT !.system_type = s])
         /\ Return(GetParameterRanges(document, s))
    /\ escaped' = "none"
    /\ nativeCalls' = <<>>
    /\ UNCHANGED <<envVars, hostVars, loaderVars, historyVars, libVars>>

\* calculator.calculate_pressure_drop(system_type=..., flow=...): the class
\* defines no such method, so the attribute lookup raises AttributeError in
\* the caller and nothing is returned.
CalculatePressureDropOp ==
    /\ CanCall
    /\ "calculate_pressure_drop" \notin REDLibraryMethods
    /\ \E s \in RequestSystems, f \in {0} \cup FlowValues :
         Begin("calculate_pressure_drop",
               [NoRequest EXCEPT !.system_type = s, !.flow = f])
    /\ pc' = "done"
    /\ outcome' = PyNone
    /\ escaped' = "AttributeError"
    /\ nativeCalls' = <<>>
    /\ UNCHANGED <<envVars, hostVars, loaderVars, historyVars, libVars>>

\* The caller has consumed the returned value (main() logs it) and the
\* frame of the call is gone; the next operation can be called.
Release ==
    /\ pc = "done"
    /\ pc' = "idle"
    /\ Begin(op, NoRequest)
    /\ outcome' = PyNone
    /\ escaped' = "none"
    /\ nativeCalls' = <<>>
    /\ answers' = Unasked
    /\ first' = NoFirst
    /\ UNCHANGED <<envVars, hostVars, loaderVars, libVars>>

Next ==
    \/ InitLoad
    \/ SetupFunctions
    \/ InitSupportedSystems
    \/ CallCalculateRed
    \/ CheckSystem
    \/ GetRanges
    \/ ValidateRanges
    \/ GetLampCount
    \/ GetLampPower
    \/ ProcessPowerSettings
    \/ ProcessEfficiencySettings
    \/ GetRedFunction
    \/ CallRedFunction
    \/ ValidateResult
    \/ GetGroupedSupportedSystemsOp
    \/ GetNLampsOp
    \/ GetParameterRangesOp
    \/ CalculatePressureDropOp
    \/ Release

Spec == Init /\ [][Next]_vars

\* calculate_red is called a second time, with the arguments of the call
\* that has just returned, on the same instance and native module.
CallAgain ==
    /\ op = "calculate_red" /\ pc = "done"
    /\ ~first.made
    /\ first' = [made |-> TRUE, req |-> req, outcome |-> outcome]
    /\ Begin("calculate_red", req)
    /\ pc' = "check_system"
    /\ outcome' = PyNone
    /\ escaped' = "none"
    /\ nativeCalls' = <<>>
    /\ UNCHANGED <<envVars, hostVars, loaderVars, libVars, answers>>

\* The operations with repeated calls of calculate_red.
NextIdem ==
    \/ Next
    \/ CallAgain

SpecIdem == Init /\ [][NextIdem]_vars

\* ------------------------------------------------- the document changes
\* Another process rewrites or removes supported_systems.json after a
\* get_parameter_ranges call has parsed it, once.
ChangeDocument ==
    /\ CanCall
    /\ op = "get_parameter_ranges"
    /\ document = firstLoad
    /\ document' \in Documents \ {document}
    /\ UNCHANGED <<firstLoad, nativeExports, nativeSystems, hostVars,
                   loaderVars, historyVars, libVars, frameVars>>

InitCatalog ==
    /\ document \in Documents
    /\ firstLoad = document
    /\ nativeExports = RequiredExports
    /\ nativeSystems = <<SysIndexOnly, "", SysBoth>>
    /\ platform = "Linux"
    /\ files = DeployedDirectory
    /\ NoServer
    /\ InitInstance

NextCatalog ==
    \/ Next
    \/ ChangeDocument

SpecCatalog == InitCatalog /\ [][NextCatalog]_vars

\* ------------------------------------------------ enumerations to group
\* Identifiers the native enumeration can report: of each series, two of
\* the RZ series whose numeric and lexicographic orders differ, and two
\* that carry no series prefix ('RZ' lacks the dash).
GroupIdentifiers ==
    {"", SysBoth, "RZ-10", SysIndexOnly, SysCatalogOnly, SysNeither, "RZ"}
MaxReported == 3
ReportedLists ==
    UNION {[1 .. n -> GroupIdentifiers] : n \in 0 .. MaxReported}

InitGroup ==
    /\ document = CatalogDocument
    /\ firstLoad = document
    /\ nativeExports = RequiredExports
    /\ nativeSystems \in ReportedLists
    /\ platform = "Linux"
    /\ files = DeployedDirectory
    /\ NoServer
    /\ InitInstance

NextGroup ==
    \/ InitLoad
    \/ SetupFunctions
    \/ InitSupportedSystems
    \/ GetGroupedSupportedSystemsOp
    \/ Release

SpecGroup == InitGroup /\ [][NextGroup]_vars

\* ------------------------------------------------------ concurrent calls
\* Two worker threads call calculate_red on the one instance.  A frame is
\* what a call holds: arguments, locals, position, and what the native
\* functions answered to it.  self.* and the native module are shared.
RunningFrame ==
    [op |-> op, pc |-> pc, req |-> req, ranges |-> ranges,
     n_lamps |-> n_lamps, lamp_power |-> lamp_power, power |-> power,
     efficiency |-> efficiency, result |-> result, outcome |-> outcome,
     escaped |-> escaped, nativeCalls |-> nativeCalls, redArgs |-> redArgs,
     answers |-> answers]
\* The frame of a call of calculate_red as it begins.
NewFrame(r) ==
    [NoFrame EXCEPT !.op = "calculate_red", !.pc = "check_system", !.req = r]

\* Requests of the two threads: all steps pass; another power vector;
\* another efficiency vector, by lamp; flow below the minimum; a system the
\* index does not have.
BaseRequest ==
    [system_type |-> SysBoth, flow |-> 1000, uvt |-> 9800, uvt215 |-> -100,
     d1_log |-> 1800, power_settings |-> NoneSettings,
     efficiency_settings |-> NoneSettings]
ConcurrentRequests ==
    {BaseRequest,
     [BaseRequest EXCEPT !.power_settings = AllLamps(8000)],
     [BaseRequest EXCEPT
        !.efficiency_settings =
            [EmptyDict EXCEPT !.hasSpecific = TRUE,
                              !.specific = <<[key |-> "1", value |-> 7000]>>]],
     [BaseRequest EXCEPT !.flow = 994],
     [BaseRequest EXCEPT !.system_type = SysNeither]}

\* Both threads enter calculate_red.
CallConcurrently ==
    /\ CanCall
    /\ parked.pc = "none"
    /\ \E r1, r2 \in ConcurrentRequests :
         /\ Begin("calculate_red", r1)
         /\ parked' = NewFrame(r2)
    /\ pc' = "check_system"
    /\ outcome' = PyNone
    /\ escaped' = "none"
    /\ nativeCalls' = <<>>
    /\ answers' = Unasked
    /\ UNCHANGED <<envVars, loaderVars, libVars, first, thread, serverVars>>

\* Variant of Switch: the power list is an attribute of the instance, so
\* the thread that resumes finds the list the other thread left.
SwitchSharingPower ==
    /\ op = "calculate_red" /\ pc # "idle"
    /\ parked.pc \notin {"none", "done"}
    /\ parked' = RunningFrame
    /\ thread' = 3 - thread
    /\ op' = parked.op
    /\ pc' = parked.pc
    /\ req' = parked.req
    /\ ranges' = parked.ranges
    /\ n_lamps' = parked.n_lamps
    /\ lamp_power' = parked.lamp_power
    /\ power' = power
    /\ efficiency' = parked.efficiency
    /\ result' = parked.result
    /\ outcome' = parked.outcome
    /\ escaped' = parked.escaped
    /\ nativeCalls' = parked.nativeCalls
    /\ redArgs' = parked.redArgs
    /\ answers' = parked.answers
    /\ UNCHANGED <<envVars, loaderVars, libVars, first, serverVars>>

\* The scheduler suspends the running thread between two steps and resumes
\* the other one: each thread finds its own frame again.
Switch ==
    /\ op = "calculate_red" /\ pc # "idle"
    /\ parked.pc \notin {"none", "done"}
    /\ parked' = RunningFrame
    /\ thread' = 3 - thread
    /\ op' = parked.op
    /\ pc' = parked.pc
    /\ req' = parked.req
    /\ ranges' = parked.ranges
    /\ n_lamps' = parked.n_lamps
    /\ lamp_power' = parked.lamp_power
    /\ power' = parked.power
    /\ efficiency' = parked.efficiency
    /\ result' = parked.result
    /\ outcome' = parked.outcome
    /\ escaped' = parked.escaped
    /\ nativeCalls' = parked.nativeCalls
    /\ redArgs' = parked.redArgs
    /\ answers' = parked.answers
    /\ UNCHANGED <<envVars, loaderVars, libVars, first, serverVars>>

InitConcurrent ==
    /\ document = CatalogDocument
    /\ firstLoad = document
    /\ nativeExports = RequiredExports
    /\ nativeSystems = <<SysIndexOnly, "", SysBoth>>
    /\ platform = "Linux"
    /\ files = DeployedDirectory
    /\ NoServer
    /\ InitInstance

NextConcurrent ==
    \/ InitLoad
    \/ SetupFunctions
    \/ InitSupportedSystems
    \/ CallConcurrently
    \/ Switch
    \/ CheckSystem
    \/ GetRanges
    \/ ValidateRanges
    \/ GetLampCount
    \/ GetLampPower
    \/ ProcessPowerSettings
    \/ ProcessEfficiencySettings
    \/ GetRedFunction
    \/ CallRedFunction
    \/ ValidateResult

SpecConcurrent == InitConcurrent /\ [][NextConcurrent]_vars

\* --------------------------------------------------------------- the server
\* server.py is imported: the route decorators run in order; reading an
\* attribute CONFIG does not have raises AttributeError and ends the import.
Resolvable(i) ==
    RouteDeclarations[i].attr = "" \/ RouteDeclarations[i].attr \in config
RegisteredCount ==
    CHOOSE k \in 0 .. Len(RouteDeclarations) :
        /\ \A i \in 1 .. k : Resolvable(i)
        /\ k < Len(RouteDeclarations) => ~Resolvable(k + 1)
RouteOf(d) ==
    [method |-> d.method, handler |-> d.handler,
     path |-> IF d.attr = "" THEN d.path ELSE EndpointPath(d.attr)]
ImportServer ==
    /\ server = "loading"
    /\ routes' = [i \in 1 .. RegisteredCount |-> RouteOf(RouteDeclarations[i])]
    /\ server' = IF RegisteredCount = Len(RouteDeclarations)
                 THEN "imported" ELSE "import_failed"
    /\ UNCHANGED <<envVars, loaderVars, libVars, frameVars, historyVars,
                   threadVars, config, calculator, inits, http>>

\* lifespan, startup: init_calculator() is called and constructs the
\* REDLibrary.
StartLifespan ==
    /\ server = "imported"
    /\ server' = "starting"
    /\ inits' = inits + 1
    /\ UNCHANGED <<envVars, loaderVars, libVars, frameVars, historyVars,
                   threadVars, config, routes, calculator, http>>

\* Variant of FinishStartup: a failed initialization is logged and the
\* server starts serving all the same.
FinishStartupServing ==
    /\ server = "starting"
    /\ ctor \in {"ready", "failed"}
    /\ calculator' = IF ctor = "ready" THEN "REDLibrary" ELSE "None"
    /\ server' = "serving"
    /\ UNCHANGED <<envVars, loaderVars, libVars, frameVars, historyVars,
                   threadVars, config, routes, inits, http>>

\* init_calculator returns: True with the global set, or False when the
\* constructor raised, and then lifespan raises RuntimeError before its
\* yield and the server does not start.
FinishStartup ==
    /\ server = "starting"
    /\ ctor \in {"ready", "failed"}
    /\ IF ctor = "ready"
       THEN calculator' = "REDLibrary" /\ server' = "serving"
       ELSE calculator' = "None" /\ server' = "aborted"
    /\ UNCHANGED <<envVars, loaderVars, libVars, frameVars, historyVars,
                   threadVars, config, routes, inits, http>>

\* A request can be taken: the server is up, the route exists, no other
\* request is being handled.
Accepts(handler) ==
    /\ server = "serving"
    /\ http.hpc = "idle"
    /\ \E i \in 1 .. Len(routes) : routes[i].handler = handler
Respond(handler, payload, called, status, body) ==
    http' = [handler |-> handler, hpc |-> "responded", payload |-> payload,
             called |-> called, status |-> status, body |-> body]
NotInitialized == [detail |-> <<"Calculator not initialized">>]
HandlerLeaves ==
    UNCHANGED <<envVars, loaderVars, libVars, threadVars, config, server,
                routes, calculator, inits>>
FrameLeft == UNCHANGED <<frameVars, historyVars>>

\* GET /health
HealthCheck ==
    /\ Accepts("health_check")
    /\ Respond("health_check", PyNone, FALSE, 200,
               [status |-> "healthy",
                calculator_initialized |-> calculator # "None"])
    /\ FrameLeft
    /\ HandlerLeaves

\* Bodies of POST /calculate: the Application of the tests' valid request
\* and one of CONFIG.APPLICATION_TYPES; a system of the index and the
\* catalog and one of neither; flow and UVT around the limits.  Lamp Type
\* and Flow Units are valid in every body.
CalculatePayloads ==
    {[Application |-> a, Module |-> mm[1], Model |-> mm[2],
      Position |-> "Vertical", Efficiency |-> 8000, Relative_Drive |-> 9000,
      UVT_1cm_254nm |-> u, Flow_Rate |-> f] :
        a \in {"Municipal", "Full Range"},
        mm \in {<<"RZ-104", "11">>, <<"XX", "1">>},
        u \in UvtValues, f \in FlowValues}
\* CalculationRequest: the field constraints and validators.
PassesValidation(p) ==
    /\ p.Application \in APPLICATION_TYPES
    /\ p.Position \in POSITION_TYPES
    /\ p.Efficiency >= 0 /\ p.Efficiency <= 10000
    /\ p.Relative_Drive >= 0 /\ p.Relative_Drive <= 10000
    /\ p.UVT_1cm_254nm >= 0 /\ p.UVT_1cm_254nm <= 10000
    /\ p.Flow_Rate > 0
convert_to_system_type(module, model) == module \o "-" \o model
\* The arguments calculate passes to calculator.calculate_red.
RedRequest(p) ==
    [system_type |-> convert_to_system_type(p.Module, p.Model),
     flow |-> p.Flow_Rate, uvt |-> p.UVT_1cm_254nm,
     uvt215 |-> DEFAULT_UVT215, d1_log |-> DEFAULT_D1LOG,
     power_settings |-> AllLamps(p.Relative_Drive),
     efficiency_settings |-> AllLamps(p.Efficiency)]

\* POST /calculate, up to the call of calculate_red: a body that fails
\* validation is answered 422 and the handler does not run.
ReceiveCalculate ==
    /\ Accepts("calculate")
    /\ \E p \in CalculatePayloads :
         IF ~PassesValidation(p)
         THEN /\ Respond("calculate", p, FALSE, 422,
                         [detail |-> <<"validation error">>])
              /\ FrameLeft
         ELSE IF calculator = "None"
         THEN /\ Respond("calculate", p, FALSE, 500, NotInitialized)
              /\ FrameLeft
         ELSE /\ http' = [handler |-> "calculate", hpc |-> "red",
                          payload |-> p, called |-> TRUE, status |-> 0,
                          body |-> PyNone]
              /\ Begin("calculate_red", RedRequest(p))
              /\ pc' = "check_system"
              /\ outcome' = PyNone
              /\ escaped' = "none"
              /\ nativeCalls' = <<>>
              /\ answers' = Unasked
              /\ first' = NoFirst
    /\ HandlerLeaves

\* POST /calculate, after calculate_red has returned: a result that is not
\* a success is answered 400; otherwise calculator.calculate_pressure_drop
\* is looked up, which REDLibrary does not define: the AttributeError is
\* caught by "except Exception" and answered 500.
RespondCalculate ==
    /\ http.handler = "calculate" /\ http.hpc = "red"
    /\ op = "calculate_red" /\ pc = "done"
    /\ IF outcome.status # "success"
       THEN Respond("calculate", http.payload, TRUE, 400,
                    [error |-> IF "message" \in DOMAIN outcome.error
                               THEN outcome.error.message
                               ELSE <<"Calculation failed">>,
                     details |-> outcome.error])
       ELSE /\ "calculate_pressure_drop" \notin REDLibraryMethods
            /\ Respond("calculate", http.payload, TRUE, 500,
                       [detail |-> <<"Internal server error: ",
                                     "AttributeError">>])
    /\ FrameLeft
    /\ HandlerLeaves

\* GET /system/{system_type}/ranges
HandleGetParameterRanges ==
    /\ Accepts("get_parameter_ranges")
    /\ \E s \in RequestSystems :
         IF calculator = "None"
         THEN Respond("get_parameter_ranges", s, FALSE, 500, NotInitialized)
         ELSE LET found == GetParameterRanges(document, s)
              IN  IF ~found.found
                  THEN Respond("get_parameter_ranges", s, TRUE, 404,
                               [detail |-> <<"System type '", s,
                                             "' not found">>])
                  ELSE Respond("get_parameter_ranges", s, TRUE, 200,
                               [system_type |-> s, ranges |-> found,
                                status |-> "success"])
    /\ FrameLeft
    /\ HandlerLeaves

\* GET /systems/supported
HandleGetSupportedSystems ==
    /\ Accepts("get_supported_systems")
    /\ \E fault \in BOOLEAN :
         IF calculator = "None"
         THEN Respond("get_supported_systems", PyNone, FALSE, 500,
                      NotInitialized)
         ELSE LET systems == GroupedSystems(GetSupportedSystems(fault))
              IN  IF DOMAIN systems = {}
                  THEN Respond("get_supported_systems", PyNone, TRUE, 404,
                               [detail |-> <<"No supported systems found">>])
                  ELSE Respond("get_supported_systems", PyNone, TRUE, 200,
                               [systems |-> systems, status |-> "success"])
    /\ FrameLeft
    /\ HandlerLeaves

\* POST /pressure-drop: flow_rate must be positive; the method looked up on
\* the calculator does not exist.
HandlePressureDrop ==
    /\ Accepts("calculate_pressure_drop")
    /\ \E s \in RequestSystems, f \in {0} \cup FlowValues :
         LET p == [system_type |-> s, flow_rate |-> f]
         IN  IF ~(f > 0)
             THEN Respond("calculate_pressure_drop", p, FALSE, 422,
                          [detail |-> <<"validation error">>])
             ELSE IF calculator = "None"
             THEN Respond("calculate_pressure_drop", p, FALSE, 500,
                          NotInitialized)
             ELSE /\ "calculate_pressure_drop" \notin REDLibraryMethods
                  /\ Respond("calculate_pressure_drop", p, TRUE, 500,
                             [detail |-> <<"Internal server error: ",
                                           "AttributeError">>])
    /\ FrameLeft
    /\ HandlerLeaves

\* POST /login: the body is validated, then the user is looked up in the
\* database; the calculator is not used.
LoginAnswers == {200, 422, 500}
HandleLogin ==
    /\ Accepts("login")
    /\ \E status \in LoginAnswers :
         Respond("login", PyNone, FALSE, status, PyNone)
    /\ FrameLeft
    /\ HandlerLeaves

\* The response is sent; the handler's frame, with the result of the
\* calculate_red call it made, is gone.
SendResponse ==
    /\ http.hpc = "responded"
    /\ http' = NoHttp
    /\ IF pc = "done"
       THEN /\ pc' = "idle"
            /\ Begin(op, NoRequest)
            /\ outcome' = PyNone
            /\ escaped' = "none"
            /\ nativeCalls' = <<>>
            /\ answers' = Unasked
            /\ first' = NoFirst
       ELSE FrameLeft
    /\ HandlerLeaves

InitServer ==
    /\ document = CatalogDocument
    /\ firstLoad = document
    /\ nativeExports \in ExportTables
    /\ nativeSystems \in NativeSystemLists
    /\ platform = "Linux"
    /\ files = DeployedDirectory
    /\ config \in ConfigStates
    /\ server = "loading"
    /\ routes = <<>>
    /\ calculator = "None"
    /\ inits = 0
    /\ http = NoHttp
    /\ InitInstance

NextServer ==
    \/ ImportServer
    \/ StartLifespan
    \/ InitLoad
    \/ SetupFunctions
    \/ InitSupportedSystems
    \/ FinishStartup
    \/ HealthCheck
    \/ ReceiveCalculate
    \/ CheckSystem
    \/ GetRanges
    \/ ValidateRanges
    \/ GetLampCount
    \/ GetLampPower
    \/ ProcessPowerSettings
    \/ ProcessEfficiencySettings
    \/ GetRedFunction
    \/ CallRedFunction
    \/ ValidateResult
    \/ RespondCalculate
    \/ HandleGetParameterRanges
    \/ HandleGetSupportedSystems
    \/ HandlePressureDrop
    \/ HandleLogin
    \/ SendResponse

SpecServer == InitServer /\ [][NextServer]_vars

\* --------------------------------------------------------------- the loader
\* One pass of the loop over possible_names: exists(), then
\* stat().st_size > 100; a stat() that raises skips the candidate.
CandidateValid(fs, n) ==
    fs[n].exists /\ ~fs[n].statFails /\ fs[n].size > MinLibrarySize

\* Variant of FirstValid: the first candidate that exists is returned, its
\* size unchecked.
RECURSIVE FirstExisting(_, _, _)
FirstExisting(names, fs, tried) ==
    IF names = <<>> THEN [path |-> "None", tried |-> tried]
    ELSE IF fs[Head(names)].exists
    THEN [path |-> Head(names), tried |-> Append(tried, Head(names))]
    ELSE FirstExisting(Tail(names), fs, Append(tried, Head(names)))

\* "for lib_name in possible_names: ..." of _get_library_path: the path
\* returned (or None) and the candidates examined.
RECURSIVE FirstValid(_, _, _)
FirstValid(names, fs, tried) ==
    IF names = <<>> THEN [path |-> "None", tried |-> tried]
    ELSE IF CandidateValid(fs, Head(names))
    THEN [path |-> Head(names), tried |-> Append(tried, Head(names))]
    ELSE FirstValid(Tail(names), fs, Append(tried, Head(names)))

\* _get_library_path
GetLibraryPath(plat, fs) ==
    IF plat = "Windows"
    THEN [path |-> IF fs[WindowsName].exists THEN WindowsName ELSE "None",
          tried |-> <<WindowsName>>]
    ELSE FirstValid(PossibleNames, fs, <<>>)

\* _load_library returns value; __init__ stores it in self.lib and raises
\* RuntimeError when it is None.
LoadReturns(value) ==
    /\ lpc' = "done"
    /\ lib' = value
    /\ ctor' = IF value = "None" THEN "failed" ELSE "loaded"
    /\ escaped' = IF value = "None" THEN "RuntimeError" ELSE escaped
LoadGoesOn(next) ==
    /\ lpc' = next
    /\ UNCHANGED <<lib, ctor, escaped>>
\* What no step of _load_library touches.
LoaderLeaves ==
    UNCHANGED <<envVars, hostVars, historyVars, platform, files, bound,
                supported_systems, op, pc, req, localVars, outcome,
                nativeCalls, redArgs>>

\* "lib_path = self._get_library_path(); if lib_path is None: return None"
ResolveLibraryPath ==
    /\ ctor = "new" /\ lpc = "idle"
    /\ LET found == GetLibraryPath(platform, files)
       IN  /\ lib_path' = found.path
           /\ loadLog' = loadLog \o [i \in 1 .. Len(found.tried) |->
                                       "try:" \o found.tried[i]]
           /\ IF found.path = "None"
              THEN LoadReturns("None")
              ELSE LoadGoesOn("check_file")
    /\ UNCHANGED <<cwd, original_dir, json_lib>>
    /\ LoaderLeaves

\* The checks before the platform branch: exists(), stat().st_size (an
\* exception ends in the outer except), "if file_size == 0".
CheckLibraryFile ==
    /\ lpc = "check_file"
    /\ IF \/ ~files[lib_path].exists
          \/ files[lib_path].statFails
          \/ files[lib_path].size = 0
       THEN LoadReturns("None") /\ loadLog' = loadLog
       ELSE /\ LoadGoesOn(IF platform = "Windows" THEN "chdir" ELSE "preload")
            /\ loadLog' = Append(loadLog, "accept:" \o lib_path)
    /\ UNCHANGED <<cwd, lib_path, original_dir, json_lib>>
    /\ LoaderLeaves

\* Windows: "original_dir = os.getcwd(); os.chdir(resources_dir)"; an
\* exception of chdir ends in the outer except.
ChangeDirectory ==
    /\ lpc = "chdir"
    /\ original_dir' = cwd
    /\ \E fault \in BOOLEAN :
         IF fault
         THEN /\ LoadReturns("None")
              /\ cwd' = cwd
              /\ loadLog' = Append(loadLog, "raise:chdir")
         ELSE /\ LoadGoesOn("kernel32")
              /\ cwd' = ResourcesDir
              /\ loadLog' = Append(loadLog, "chdir:" \o ResourcesDir)
    /\ UNCHANGED <<lib_path, json_lib>>
    /\ LoaderLeaves

\* Windows: "kernel32 = ctypes.WinDLL('kernel32', ...)" and the lookup of
\* LoadLibraryExW, before the try statement: an exception here ends in the
\* outer except, which returns None.
GetKernel32 ==
    /\ lpc = "kernel32"
    /\ \E fault \in BOOLEAN :
         IF fault
         THEN LoadReturns("None") /\ loadLog' = Append(loadLog, "raise:kernel32")
         ELSE LoadGoesOn("load_json") /\ loadLog' = loadLog
    /\ UNCHANGED <<cwd, lib_path, original_dir, json_lib>>
    /\ LoaderLeaves

\* What LoadLibraryExW does: a handle, NULL, or an exception.
LoadResults == {"handle", "null", "raise"}
\* The log of one load attempt.
LoadAttempt(name, r) ==
    IF r = "handle" THEN <<"load:" \o name>>
    ELSE <<"load:" \o name, "fail:" \o name>>

\* Windows, inside try/except/finally: the JSON DLL; NULL or an exception
\* returns None, the finally clause restoring the directory.
LoadJsonDll ==
    /\ lpc = "load_json"
    /\ \E r \in LoadResults :
         IF r = "handle"
         THEN /\ LoadGoesOn("load_red")
              /\ json_lib' = "CDLL"
              /\ cwd' = cwd
              /\ loadLog' = loadLog \o LoadAttempt(JsonName(platform), r)
         ELSE /\ LoadReturns("None")
              /\ json_lib' = json_lib
              /\ cwd' = original_dir
              /\ loadLog' = loadLog \o LoadAttempt(JsonName(platform), r)
                                    \o <<"chdir:" \o original_dir>>
    /\ UNCHANGED <<lib_path, original_dir>>
    /\ LoaderLeaves

\* Windows, inside try/except/finally: the RED API DLL; the directory is
\* restored on every way out.
LoadRedDll ==
    /\ lpc = "load_red"
    /\ \E r \in LoadResults :
         /\ LoadReturns(IF r = "handle" THEN "CDLL" ELSE "None")
         /\ loadLog' = loadLog \o LoadAttempt(lib_path, r)
                               \o <<"chdir:" \o original_dir>>
    /\ cwd' = original_dir
    /\ UNCHANGED <<lib_path, original_dir, json_lib>>
    /\ LoaderLeaves

\* Variant of PreloadJson: a failed preload makes _load_library return None.
PreloadJsonFatal ==
    /\ lpc = "preload"
    /\ IF files[JsonName(platform)].exists
       THEN \E r \in {"handle", "raise"} :
              /\ loadLog' = loadLog \o LoadAttempt(JsonName(platform), r)
              /\ json_lib' = IF r = "handle" THEN "CDLL" ELSE json_lib
              /\ IF r = "handle" THEN LoadGoesOn("load_main")
                 ELSE LoadReturns("None")
       ELSE LoadGoesOn("load_main") /\ UNCHANGED <<loadLog, json_lib>>
    /\ UNCHANGED <<cwd, lib_path, original_dir>>
    /\ LoaderLeaves

\* Elsewhere: "if json_lib_path.exists(): try: self._json_lib = CDLL(...)
\* except Exception: <warning>".
PreloadJson ==
    /\ lpc = "preload"
    /\ IF files[JsonName(platform)].exists
       THEN \E r \in {"handle", "raise"} :
              /\ loadLog' = loadLog \o LoadAttempt(JsonName(platform), r)
              /\ json_lib' = IF r = "handle" THEN "CDLL" ELSE json_lib
       ELSE UNCHANGED <<loadLog, json_lib>>
    /\ LoadGoesOn("load_main")
    /\ UNCHANGED <<cwd, lib_path, original_dir>>
    /\ LoaderLeaves

\* Elsewhere: "return ctypes.CDLL(str(lib_path))"; an exception ends in the
\* outer except, which returns None.
LoadMainLibrary ==
    /\ lpc = "load_main"
    /\ \E r \in {"handle", "raise"} :
         /\ LoadReturns(IF r = "handle" THEN "CDLL" ELSE "None")
         /\ loadLog' = loadLog \o LoadAttempt(lib_path, r)
    /\ UNCHANGED <<cwd, lib_path, original_dir, json_lib>>
    /\ LoaderLeaves

\* __init__ up to the return of _load_library, on either platform and over
\* every resources directory.
InitLoader ==
    /\ document = CatalogDocument
    /\ firstLoad = document
    /\ nativeExports = RequiredExports
    /\ nativeSystems = <<SysBoth>>
    /\ platform \in Platforms
    /\ files \in Directories(platform)
    /\ NoServer
    /\ InitInstance

NextLoad ==
    \/ ResolveLibraryPath
    \/ CheckLibraryFile
    \/ ChangeDirectory
    \/ GetKernel32
    \/ LoadJsonDll
    \/ LoadRedDll
    \/ PreloadJson
    \/ LoadMainLibrary

SpecLoad == InitLoader /\ [][NextLoad]_vars

\* ------------------------------------------------------------------ claims
\* Shorthands for the properties below.
InCalculateRed == op = "calculate_red" /\ pc # "idle"
Returned == op = "calculate_red" /\ pc = "done"
Logged(entry) == \E i \in 1 .. Len(nativeCalls) : nativeCalls[i] = entry
IndexedSystems == {supported_systems[i] : i \in 1 .. Len(supported_systems)}
CatalogSystems ==
    IF document.exists /\ document.hasTop
    THEN {s \in DOMAIN document.systems : document.systems[s].hasLimits}
    ELSE {}
FailureKinds == {"validation", "system", "calculation"}

\* C1: the native RED function is invoked only for a system_type that is in
\* the supported-systems index and has a catalog entry, on an instance whose
\* initialization bound the whole function table; otherwise no native
\* calculation call occurs.
C1_CalculationOnlyForKnownSystem ==
    (InCalculateRed /\ (redArgs.called \/ Logged("call:red_func")
                         \/ pc \in {"call_red", "result"}))
        => /\ req.system_type \in IndexedSystems
           /\ req.system_type \in CatalogSystems
           /\ ctor = "ready"
           /\ FunctionAttributes \subseteq bound
\* A call that reached the native RED function and returned success.
C1_Witness ==
    /\ Returned /\ redArgs.called /\ Logged("call:red_func")
    /\ outcome.status = "success"
    /\ req.system_type = SysBoth

\* C2: for a system_type absent from the supported-systems index,
\* calculate_red returns a failure of kind 'system' whose message names the
\* system (not a validation field error) and makes no native call of any
\* kind.
C2_UnknownSystemIsSystemFailure ==
    (InCalculateRed /\ req.system_type \notin IndexedSystems)
        => /\ nativeCalls = <<>>
           /\ ~redArgs.called
           /\ pc \in {"check_system", "done"}
           /\ pc = "done" =>
                /\ outcome.status = "error"
                /\ outcome.error.type = "system"
                /\ DOMAIN outcome.error = {"type", "message"}
                /\ \E i \in 1 .. Len(outcome.error.message) :
                      outcome.error.message[i] = req.system_type
\* An unknown system was rejected.
C2_Witness ==
    /\ Returned /\ req.system_type = SysNeither
    /\ outcome.status = "error"

\* C3: every value calculate_red returns is exactly one variant: status
\* 'success' with result and details and no error, or status 'error' with
\* an error of kind validation, system or calculation, the echoed parameters
\* and no result; never None, never a mix.
SuccessVariant(o) ==
    /\ DOMAIN o = {"status", "result", "details"}
    /\ o.status = "success"
FailureVariant(o) ==
    /\ DOMAIN o = {"status", "error", "parameters"}
    /\ o.status = "error"
    /\ o.error.type \in FailureKinds
    /\ {"system_type", "flow", "uvt"} \subseteq DOMAIN o.parameters
C3_ExactlyOneVariant ==
    Returned =>
        /\ escaped = "none"
        /\ outcome # PyNone
        /\ SuccessVariant(outcome) \/ FailureVariant(outcome)
\* Both variants occur; this is a returned calculation failure.
C3_Witness ==
    /\ Returned
    /\ FailureVariant(outcome)
    /\ outcome.error.type = "calculation"

\* C4: no consumer-facing operation (get_grouped_supported_systems,
\* get_n_lamps, get_parameter_ranges, calculate_red,
\* calculate_pressure_drop) lets an exception escape to its caller; a fault
\* during a calculation ends in a returned failure of kind 'system' that
\* carries the underlying message.
ConsumerOperations ==
    {"get_grouped_supported_systems", "get_n_lamps", "get_parameter_ranges",
     "calculate_red", "calculate_pressure_drop"}
C4_NoExceptionEscapes ==
    (op \in ConsumerOperations /\ pc = "done")
        => /\ escaped = "none"
           /\ (op = "calculate_red"
                /\ \E i \in 1 .. Len(nativeCalls) :
                      SubSeq(nativeCalls[i], 1, 6) = "raise:")
                => /\ FailureVariant(outcome)
                   /\ outcome.error.type = "system"
                   /\ outcome.error.message = <<"Calculation error: ",
                                                "native fault">>

\* C5: for a system in the index and in the catalog, the fields a range
\* failure of calculate_red reports are exactly those of flow and uvt whose
\* value is below min or above max (limits inclusive, each field checked on
\* its own), and there is a range failure exactly when that set is not
\* empty.
RangeFailure(o) ==
    /\ o.status = "error"
    /\ o.error.type = "validation"
    /\ "errors" \in DOMAIN o.error
Violators(r) ==
    LET lim == document.systems[r.system_type].limits
    IN  {f \in {"flow", "uvt"} :
           \/ r[f] < lim[f].min
           \/ r[f] > lim[f].max}
C5_RangeFailureNamesViolators ==
    (Returned /\ req.system_type \in IndexedSystems
              /\ req.system_type \in CatalogSystems)
        => /\ RangeFailure(outcome) <=> Violators(req) # {}
           /\ RangeFailure(outcome)
                => DOMAIN outcome.error.errors = Violators(req)
\* A request that violates both limits reports both; one that violates one
\* names only that one (C5_WitnessOne).
C5_Witness ==
    /\ Returned /\ RangeFailure(outcome)
    /\ DOMAIN outcome.error.errors = {"flow", "uvt"}
    /\ req.flow > 10000 /\ req.uvt < 4000
C5_WitnessOne ==
    /\ Returned /\ RangeFailure(outcome)
    /\ DOMAIN outcome.error.errors = {"uvt"}
    /\ req.flow = 1000

\* C6: whenever calculate_red invokes the native RED function, the power
\* array and the efficiency array each have as many elements as the lamp
\* count the native lamp-count function returned in that call, and that
\* count is the lamp-count argument of the call.
C6_ArraysMatchLampCount ==
    (InCalculateRed /\ redArgs.called)
        => /\ Logged("call:get_lamp_count")
           /\ n_lamps > 0
           /\ Len(redArgs.power) = n_lamps
           /\ Len(redArgs.efficiency) = n_lamps
           /\ redArgs.n_lamps = n_lamps
\* The RED function was called for a system with more than one lamp.
C6_Witness ==
    /\ InCalculateRed /\ redArgs.called
    /\ n_lamps >= 2
    /\ Len(redArgs.power) = n_lamps

\* C7: a settings object with both all_lamps and specific_lamps yields the
\* specific_lamps value at each named 1-based index and the all_lamps value
\* at every other index, whatever the order of the two keys; all_lamps 90
\* with specific_lamps {"1": 50} on a 2-lamp system yields [50, 90].
ExpectedVector(settings, n) ==
    [i \in 1 .. n |->
       IF \E j \in 1 .. Len(settings.specific) :
              settings.specific[j].key = ToString(i)
       THEN settings.specific[
                CHOOSE j \in 1 .. Len(settings.specific) :
                    settings.specific[j].key = ToString(i)].value
       ELSE settings.all]
PowerBuilt ==
    \/ InCalculateRed /\ pc \in {"efficiency", "red_function", "call_red", "result"}
    \/ Returned /\ outcome.status = "success"
EfficiencyBuilt ==
    \/ InCalculateRed /\ pc \in {"red_function", "call_red", "result"}
    \/ Returned /\ outcome.status = "success"
C7_SpecificOverridesBroadcast ==
    /\ (PowerBuilt /\ req.power_settings.hasAll
                   /\ req.power_settings.hasSpecific)
         => power = ExpectedVector(req.power_settings, n_lamps)
    /\ (EfficiencyBuilt /\ req.efficiency_settings.hasAll
                        /\ req.efficiency_settings.hasSpecific)
         => efficiency = ExpectedVector(req.efficiency_settings, n_lamps)
\* all_lamps 90 and specific_lamps {"1": 50}, specific_lamps being the
\* first key of the dict, on a 2-lamp system: [50, 90].
C7_Witness ==
    /\ PowerBuilt
    /\ n_lamps = 2
    /\ req.power_settings.hasAll /\ req.power_settings.all = 9000
    /\ ~req.power_settings.allFirst
    /\ req.power_settings.specific = <<[key |-> "1", value |-> 5000]>>
    /\ power = <<5000, 9000>>

\* C8 (as stated): a specific_lamps key that is 0, negative or non-numeric
\* always makes calculate_red return a validation failure, with no array
\* returned and no native RED call.
NeverALamp == {ToString(i) : i \in (-1) .. 0} \cup {"x"}
HasKeyIn(settings, keys) ==
    /\ settings.hasSpecific
    /\ \E j \in 1 .. Len(settings.specific) : settings.specific[j].key \in keys
HasInvalidKey(r, n) ==
    LET invalid == NeverALamp \cup
                   (IF n > 0 THEN LampKeys \ {ToString(i) : i \in 1 .. n}
                    ELSE {})
    IN  HasKeyIn(r.power_settings, invalid)
        \/ HasKeyIn(r.efficiency_settings, invalid)
C8_InvalidKeyAlwaysValidationFailure ==
    (Returned /\ HasInvalidKey(req, n_lamps))
        => /\ FailureVariant(outcome)
           /\ outcome.error.type = "validation"
           /\ ~redArgs.called

\* C8 (amended): a specific_lamps key, in the power or the efficiency
\* settings, that is 0, negative, greater than the lamp count or
\* non-numeric always makes calculate_red return a failure without calling
\* the native RED function and without returning any array; the failure is
\* the invalid-lamp validation failure whenever the request gets as far as
\* the array builder (system in index and catalog, flow and uvt in range,
\* lamp count and lamp power obtained).
BuilderReached ==
    /\ nativeCalls = <<"call:get_lamp_count", "call:get_lamp_power">>
    /\ n_lamps > 0
C8_InvalidKeyFailsWholeBuild ==
    (InCalculateRed /\ HasInvalidKey(req, n_lamps))
        => /\ ~redArgs.called
           /\ ~Logged("call:getREDFunction")
           /\ pc \notin {"red_function", "call_red", "result"}
           /\ pc = "done" =>
                /\ FailureVariant(outcome)
                /\ BuilderReached =>
                     /\ outcome.error.type = "validation"
                     /\ DOMAIN outcome.error = {"type", "message"}
                     /\ outcome.error.message[1]
                          \in {"Invalid lamp index ", "Invalid lamp "}
\* The efficiency loop applied a valid item, then met an invalid key: the
\* local list is changed, the call returned the validation failure.
C8_Witness ==
    /\ Returned /\ BuilderReached
    /\ HasInvalidKey(req, n_lamps)
    /\ ~req.efficiency_settings.hasAll
    /\ efficiency # DefaultEfficiency(n_lamps)
    /\ power # DefaultPower(n_lamps)
    /\ outcome.error.type = "validation"

\* C9: if the native lamp-count function returns zero, calculate_red
\* returns the lamp-count-unavailable failure, builds no lamp arrays and
\* makes no further native call; if the call raises instead, the outcome is
\* a 'system' failure too, again with no arrays and no RED call.
LampCountAsked == InCalculateRed /\ Logged("call:get_lamp_count")
C9_NoLampCountNoCalculation ==
    (LampCountAsked /\ n_lamps = 0)
        => /\ pc = "done"
           /\ FailureVariant(outcome)
           /\ outcome.error.type = "system"
           /\ ~Logged("raise:get_lamp_count")
                => outcome.error.message =
                     <<"Could not get lamp count for system ", req.system_type>>
           /\ power = <<>> /\ efficiency = <<>>
           /\ ~redArgs.called
           /\ ~Logged("call:get_lamp_power")
           /\ ~Logged("call:getREDFunction")
           /\ ~Logged("call:red_func")
\* The native lamp count came back zero.
C9_Witness ==
    /\ Returned
    /\ nativeCalls = <<"call:get_lamp_count">>
    /\ n_lamps = 0
    /\ outcome.error.message[1] = "Could not get lamp count for system "

\* C10: a native RED return value <= 0 gives a failure of kind
\* 'calculation', never a success; and every success comes from a strictly
\* positive native return value.
RedReturned == Logged("call:red_func") /\ ~Logged("raise:red_func")
C10_SuccessOnlyFromPositiveDose ==
    Returned =>
        /\ (RedReturned /\ ~result.nan /\ result.v <= 0)
             => /\ FailureVariant(outcome)
                /\ outcome.error.type = "calculation"
        /\ outcome.status = "success"
             => RedReturned /\ ~result.nan /\ result.v > 0

\* C11: every failure outcome of calculate_red echoes the request: each
\* parameter reported in the failure's parameters equals the value the
\* caller supplied for it in that call.  An absent settings argument (None)
\* and an empty settings dict ({}) are taken as the same value.
SameSettings(a, b) == a = b \/ (~Truthy(a) /\ ~Truthy(b))
EchoesRequest(parameters, r) ==
    \A p \in DOMAIN parameters :
        IF p \in {"power_settings", "efficiency_settings"}
        THEN SameSettings(parameters[p], r[p])
        ELSE parameters[p] = r[p]
C11_FailureEchoesRequest ==
    (Returned /\ outcome.status = "error")
        => EchoesRequest(outcome.parameters, req)

\* C12: calculate_pressure_drop(system_type, flow) returns a structured
\* failure with status 'error': kind 'validation' when flow <= 0 on a known
\* system, kind 'system' when system_type cannot be resolved; in neither
\* case is a native function called.
PressureDropReturned == op = "calculate_pressure_drop" /\ pc = "done"
C12_PressureDropFailures ==
    (PressureDropReturned
       /\ (req.system_type \notin IndexedSystems \/ req.flow <= 0))
        => /\ escaped = "none"
           /\ outcome # PyNone
           /\ outcome.status = "error"
           /\ outcome.error.type =
                (IF req.system_type \notin IndexedSystems
                 THEN "system" ELSE "validation")
           /\ nativeCalls = <<>>

\* C13: for a supported system and any positive flow,
\* calculate_pressure_drop returns status 'success' with a strictly
\* positive result and the unit '[cmH2O]'.
C13_PressureDropSuccess ==
    (PressureDropReturned
       /\ req.system_type \in IndexedSystems /\ req.flow > 0)
        => /\ escaped = "none"
           /\ outcome # PyNone
           /\ outcome.status = "success"
           /\ outcome.result > 0
           /\ outcome.unit = "[cmH2O]"

\* C14: two calls of calculate_red with identical arguments on the same
\* initialized instance return identical outcomes, the native module being
\* deterministic: the first call leaves behind no state that changes the
\* outcome of the second.
C14_SecondCallSameOutcome ==
    (Returned /\ first.made)
        => /\ req = first.req
           /\ outcome = first.outcome
\* A successful calculation was repeated and succeeded again.
C14_Witness ==
    /\ Returned /\ first.made
    /\ outcome.status = "success"
    /\ Logged("call:red_func")
    /\ req.power_settings.hasSpecific

\* C15: during initialization init_config is resolved and invoked before any
\* other exported symbol of the native module is resolved or called; if it
\* returns failure, no other symbol is resolved or called, nothing is bound
\* and construction fails.
Constructing == op = "__init__"
InitConfigEntries ==
    {"resolve:init_system_config", "call:init_system_config",
     "false:init_system_config"}
C15_InitConfigFirst ==
    Constructing =>
        /\ \A i \in 1 .. Len(nativeCalls) :
              nativeCalls[i] \notin InitConfigEntries
                => /\ i > 2
                   /\ SubSeq(nativeCalls, 1, 2) =
                        <<"resolve:init_system_config",
                          "call:init_system_config">>
                   /\ ~Logged("false:init_system_config")
        /\ Logged("false:init_system_config")
              => /\ nativeCalls = <<"resolve:init_system_config",
                                    "call:init_system_config",
                                    "false:init_system_config">>
                 /\ bound = {}
                 /\ ctor = "failed"
                 /\ escaped = "RuntimeError"
\* init_config was invoked and returned failure.
C15_Witness ==
    /\ Constructing /\ ctor = "failed"
    /\ Logged("call:init_system_config")
    /\ Logged("false:init_system_config")

\* C16: after construction succeeds a typed callable is bound for every
\* logical operation of the function table (list_systems, lamp_count,
\* lamp_power, red_function_for, validate_parameters, pressure_drop,
\* init_config), and every native symbol a later operation resolves or calls
\* is one of those bound at initialization; if any symbol fails to resolve,
\* construction fails and no partially bound table is usable.
LogicalOperations ==
    {"list_systems", "lamp_count", "lamp_power", "red_function_for",
     "validate_parameters", "pressure_drop", "init_config"}
\* The logical operation each attribute set by _setup_functions serves;
\* init_config is resolved, typed and invoked inside _init_system_config.
OperationOf ==
    [get_supported_systems_func |-> "list_systems",
     get_lamp_count_func |-> "lamp_count",
     get_lamp_power_func |-> "lamp_power",
     get_red_function |-> "red_function_for",
     validate_parameters_func |-> "validate_parameters"]
OperationsBound == {OperationOf[a] : a \in bound} \cup {"init_config"}
SymbolsBoundAtInit == RequiredExports \cup {"red_func"}
SymbolOf(entry) ==
    IF SubSeq(entry, 1, 8) = "resolve:" THEN SubSeq(entry, 9, Len(entry))
    ELSE IF SubSeq(entry, 1, 5) = "call:" THEN SubSeq(entry, 6, Len(entry))
    ELSE ""
NoPartialTable ==
    /\ ctor = "ready" => bound = FunctionAttributes
    /\ (bound # {} /\ bound # FunctionAttributes) => ctor = "failed"
C16_WholeFunctionTableBound ==
    /\ ctor = "ready" => LogicalOperations \subseteq OperationsBound
    /\ (ctor = "ready" /\ ~Constructing) =>
          \A i \in 1 .. Len(nativeCalls) :
              SymbolOf(nativeCalls[i]) \in SymbolsBoundAtInit \cup {""}
    /\ NoPartialTable

\* C17: if the native enumeration, queried right after binding, returns a
\* null pointer or a zero count, or yields no decodable identifier,
\* construction fails with an exception and no operation is ever served by
\* that instance.
EnumerationEmpty ==
    /\ Constructing
    /\ Logged("call:get_supported_systems")
    /\ supported_systems = <<>>
C17_NoSystemsNoInstance ==
    /\ EnumerationEmpty => ctor = "failed" /\ escaped = "RuntimeError"
    /\ ctor = "failed" => Constructing /\ pc = "idle" /\ outcome = PyNone
    /\ ctor = "ready" => supported_systems # <<>>
    /\ Logged("call:get_supported_systems") /\ Constructing
          => nativeCalls[Len(nativeCalls)] = "call:get_supported_systems"
             /\ SubSeq(nativeCalls[Len(nativeCalls) - 1], 1, 8) = "resolve:"
\* The table was bound, the enumeration had one entry and it was not
\* decodable: construction failed.
C17_Witness ==
    /\ EnumerationEmpty /\ ctor = "failed"
    /\ bound = FunctionAttributes
    /\ nativeSystems = <<"">>

\* Shorthands for the loader properties.
LoadLogged(entry) == \E i \in 1 .. Len(loadLog) : loadLog[i] = entry
LogIndex(entry) == CHOOSE i \in 1 .. Len(loadLog) : loadLog[i] = entry
Candidates == IF platform = "Windows" THEN <<WindowsName>> ELSE PossibleNames
\* The candidate reached the platform's load branch.
Handed == lib_path # "None" /\ LoadLogged("accept:" \o lib_path)
LoaderReturned == lpc = "done"
\* A candidate passes: it exists and its size is read and above threshold.
Passes(n, threshold) ==
    files[n].exists /\ ~files[n].statFails /\ files[n].size > threshold
\* The resolver's contract for a size threshold: the candidate handed to the
\* loader passes and is the first of the fixed order that does, the
\* candidates before it were examined in order and skipped, the main module
\* loaded is that candidate, and the result is not-found exactly when no
\* candidate passes.
ResolverContract(threshold) ==
    /\ Handed =>
         \E i \in 1 .. Len(Candidates) :
            /\ Candidates[i] = lib_path
            /\ Passes(lib_path, threshold)
            /\ \A j \in 1 .. (i - 1) : ~Passes(Candidates[j], threshold)
            /\ SubSeq(loadLog, 1, i) = [j \in 1 .. i |-> "try:" \o Candidates[j]]
    /\ \A n \in FileNames :
         (LoadLogged("load:" \o n) /\ n # JsonName(platform))
            => Handed /\ n = lib_path
    /\ LoaderReturned =>
         (~Handed <=> \A i \in 1 .. Len(Candidates) :
                          ~Passes(Candidates[i], threshold))

\* C18 (as stated): on every platform the resolver never hands the loader a
\* candidate that does not exist or whose size is at or below the minimum
\* plausibility threshold (100 bytes); candidates are tried in the fixed
\* order, a rejected one is skipped, the first passing one is loaded, and
\* the result is not-found exactly when none passes.
C18_OneThresholdEverywhere == ResolverContract(MinLibrarySize)

\* C18 (amended): the same, the threshold being 100 bytes where several
\* candidate names are tried (libred_api.so, libred_api.so.1,
\* libred_api.so.1.0) and 0 bytes on Windows, where the single candidate
\* red_api.dll is rejected only when it is missing or empty.
SizeThreshold == IF platform = "Windows" THEN 0 ELSE MinLibrarySize
C18_ResolverHandsFirstValid == ResolverContract(SizeThreshold)
\* The first name is too small, the second cannot be read, the third is
\* valid and was loaded.
C18_Witness ==
    /\ LoaderReturned /\ lib = "CDLL"
    /\ files[PossibleNames[1]] = Sized(MinLibrarySize)
    /\ files[PossibleNames[2]] = Unreadable
    /\ lib_path = PossibleNames[3]
    /\ LoadLogged("load:" \o PossibleNames[3])

\* C19: on the platform that changes the working directory to load the
\* module, the working directory when _load_library returns equals the
\* one when it was called, on every path after the change: successful load,
\* dependency load failure, main module load failure, and any exception
\* raised at any point after the directory was changed.
DirectoryChanged == LoadLogged("chdir:" \o ResourcesDir)
C19_WorkingDirectoryRestored ==
    (platform = "Windows" /\ LoaderReturned /\ DirectoryChanged)
        => cwd = StartDir

\* C20 (as stated): on every platform a load of the JSON dependency is
\* attempted before the load of the main module; where the preload is
\* best-effort its failure is not fatal.
JsonLoad == "load:" \o JsonName(platform)
JsonFailed == "fail:" \o JsonName(platform)
MainLoad == "load:" \o lib_path
MainFailed == "fail:" \o lib_path
JsonFirst ==
    (LoadLogged(MainLoad) /\ LoadLogged(JsonLoad))
        => LogIndex(JsonLoad) < LogIndex(MainLoad)
\* Where the preload is best-effort the main module load is attempted
\* whatever the preload did, and its result is what the loader returns.
MainLoadDecides ==
    (platform = "Linux" /\ Handed /\ LoaderReturned)
        => /\ LoadLogged(MainLoad)
           /\ lib = "CDLL" <=> ~LoadLogged(MainFailed)
C20_JsonAlwaysAttemptedFirst ==
    /\ LoadLogged(MainLoad) => LoadLogged(JsonLoad)
    /\ JsonFirst
    /\ MainLoadDecides

\* C20 (amended): whenever the JSON dependency is loaded, that is before
\* the main module.  On Windows its load is always attempted and must
\* succeed for the main module to be loaded.  Elsewhere it is attempted
\* exactly when libjson-c.so exists in the module's directory; a failed or
\* skipped preload is not fatal: the main module load is attempted and its
\* result is what the loader returns.
C20_JsonBeforeMain ==
    /\ JsonFirst
    /\ (platform = "Windows" /\ LoadLogged(MainLoad))
         => LoadLogged(JsonLoad) /\ ~LoadLogged(JsonFailed)
    /\ (platform = "Linux" /\ LoadLogged(MainLoad))
         => (LoadLogged(JsonLoad) <=> files[JsonName(platform)].exists)
    /\ MainLoadDecides
\* The preload failed and the main module was loaded all the same.
C20_Witness ==
    /\ platform = "Linux" /\ LoaderReturned
    /\ LoadLogged(JsonFailed)
    /\ LoadLogged(MainLoad)
    /\ lib = "CDLL"

\* A call that looked the ranges up has its result in the state: what
\* get_parameter_ranges returned to a consumer, or to calculate_red.
RangesReturned == op = "get_parameter_ranges" /\ pc = "done"
RangesLookedUp ==
    op = "calculate_red" /\ pc \notin {"idle", "check_system", "get_ranges"}
        /\ InSupportedSystems(req.system_type)
\* C21: the specification document is parsed once and the result cached for
\* the process lifetime: every ranges result, of get_parameter_ranges and
\* inside calculate_red, is the one the document as first parsed gives,
\* whatever has happened to the document since (no hot reload).
C21_DocumentParsedOnce ==
    /\ RangesReturned
          => outcome = GetParameterRanges(firstLoad, req.system_type)
    /\ RangesLookedUp
          => ranges = GetParameterRanges(firstLoad, req.system_type)

\* C22: a missing specification document, or one without the top-level
\* key, is never reported as the outcome of a system that has no entry:
\* get_parameter_ranges does not return the not-found value and
\* calculate_red does not return the no-specification failure for it.
Malformed(doc) == ~doc.exists \/ ~doc.hasTop
C22_MalformedCatalogDistinct ==
    /\ (RangesReturned /\ Malformed(document)) => outcome # NoRanges
    /\ (RangesLookedUp /\ pc = "done" /\ Malformed(document))
          => outcome # ErrNoRanges(req)

\* What the native enumeration reported to the call that has returned:
\* nothing when the call into it failed.
GroupedReturned == op = "get_grouped_supported_systems" /\ pc = "done"
Reported ==
    IF Logged("raise:get_supported_systems") THEN {}
    ELSE {nativeSystems[i] : i \in 1 .. Len(nativeSystems)} \ {""}
Members(bucket) == {bucket[i] : i \in 1 .. Len(bucket)}
\* The bucket an identifier belongs to by its prefix.
SeriesOf(s) ==
    IF Len(s) >= 3 /\ SubSeq(s, 1, 3) = "RZ-" THEN "RZ Series"
    ELSE IF Len(s) >= 4 /\ SubSeq(s, 1, 4) = "RZM-" THEN "RZM Series"
    ELSE IF Len(s) >= 5 /\ SubSeq(s, 1, 5) = "RZMW-" THEN "RZMW Series"
    ELSE "Other Series"
\* C23: get_grouped_supported_systems partitions the reported identifiers:
\* each is in exactly one bucket, the one of its prefix (RZ-, RZM-, RZMW-,
\* otherwise Other); the buckets together hold exactly the reported set; no
\* bucket of the result is empty; each bucket is in lexicographic order.
C23_GroupsPartitionSystems ==
    GroupedReturned =>
        /\ DOMAIN outcome \subseteq SeriesLabels
        /\ \A s \in Reported :
              {l \in DOMAIN outcome : s \in Members(outcome[l])} = {SeriesOf(s)}
        /\ UNION {Members(outcome[l]) : l \in DOMAIN outcome} = Reported
        /\ \A l \in DOMAIN outcome :
              /\ outcome[l] # <<>>
              /\ \A i, j \in 1 .. Len(outcome[l]) :
                    i < j => ~StrLess(outcome[l][j], outcome[l][i])
\* Reported out of order and with a look-alike of the RZ prefix: two
\* buckets, the RZ one sorted, and no empty bucket in the result.
C23_Witness ==
    /\ GroupedReturned
    /\ nativeSystems = <<SysBoth, "RZ", "RZ-10">>
    /\ DOMAIN outcome = {"RZ Series", "Other Series"}
    /\ outcome["RZ Series"] = <<"RZ-10", SysBoth>>
    /\ outcome["Other Series"] = <<"RZ">>

\* C25: once the instance is constructed, no step of any operation
\* (calculate_red, get_parameter_ranges, get_grouped_supported_systems,
\* get_n_lamps), successful or failing, changes the module handle, the
\* retained dependency handle, the bound function table or the
\* supported-systems index.
C25_InstanceReadOnlyAfterInit ==
    [][ctor = "ready"
         => UNCHANGED <<ctor, lib, json_lib, bound, supported_systems>>]_vars
\* The enumeration failed inside get_grouped_supported_systems and the
\* index built at construction is still there.
C25_Witness ==
    /\ GroupedReturned
    /\ Logged("raise:get_supported_systems")
    /\ DOMAIN outcome = {}
    /\ supported_systems = <<SysIndexOnly, SysBoth>>
    /\ bound = FunctionAttributes
    /\ lib = "CDLL"

\* The steps of calculate_red in their order, decided from the request,
\* the index, the document and what the native functions answered: the
\* step that fails first, the value returned there and the native calls
\* made up to it ("none": every step passed).
ExpectedRunOf(r, native) ==
    LET NativeFault == ErrException(r, "native fault")
        sys == r.system_type
        rg == GetParameterRanges(document, sys)
        errs == ValidationErrors(r.flow, r.uvt, rg)
        lc == native.lamp_count.ret
        lp == native.lamp_power.ret
        rf == native.red_function.ret
        rd == native.red.ret
        n == lc.val
        pw == ProcessSettings(DefaultPower(n), r.power_settings, n)
        ef == ProcessSettings(DefaultEfficiency(n), r.efficiency_settings, n)
        c4 == <<"call:get_lamp_count">>
        c5 == c4 \o <<"call:get_lamp_power">>
        c8 == c5 \o <<"call:getREDFunction">>
        c9 == c8 \o <<"call:red_func">>
        At(step, value, calls) ==
            [step |-> step, value |-> value, calls |-> calls]
    IN  IF ~InSupportedSystems(sys)
        THEN At("system", ErrSystemNotFound(r), <<>>)
        ELSE IF ~rg.found THEN At("catalog", ErrNoRanges(r), <<>>)
        ELSE IF DOMAIN errs # {}
        THEN At("bounds", ErrValidation(r, errs), <<>>)
        ELSE IF lc.fault
        THEN At("lamp_count", NativeFault, c4 \o <<"raise:get_lamp_count">>)
        ELSE IF n = 0 THEN At("lamp_count", ErrLampCount(r), c4)
        ELSE IF lp.fault
        THEN At("lamp_power", NativeFault, c5 \o <<"raise:get_lamp_power">>)
        ELSE IF pw.err # ""
        THEN At("power", ErrLampSettings(r, "power", pw, n), c5)
        ELSE IF ef.err # ""
        THEN At("efficiency", ErrLampSettings(r, "efficiency", ef, n), c5)
        ELSE IF rf.fault
        THEN At("red_function", NativeFault, c8 \o <<"raise:getREDFunction">>)
        ELSE IF rf.val = "null" THEN At("red_function", ErrRedFunction(r), c8)
        ELSE IF rd.fault
        THEN At("call", NativeFault, c9 \o <<"raise:red_func">>)
        ELSE IF ResultInvalid(rd.val) THEN At("result", ErrCalculation(r), c9)
        ELSE At("none", Success(r, rd.val, n, lp.val, pw.arr, ef.arr), c9)
ExpectedRun == ExpectedRunOf(req, answers)
BeforeLampCount == {"system", "catalog", "bounds"}
BeforeArrays == BeforeLampCount \cup {"lamp_count", "lamp_power"}
\* C28: calculate_red applies its checks in the order system in index,
\* catalog entry, flow/uvt bounds, native lamp count (then the lamp power
\* query), power overrides, efficiency overrides, RED-function resolution,
\* native call; what it returns is the failure of the first step that
\* fails, and nothing after that step runs: the native calls made are
\* exactly those before it, no array is built before the lamp count passed
\* and the RED function is called only when everything before it passed.
C28_FirstFailingCheckDecides ==
    Returned =>
        /\ outcome = ExpectedRun.value
        /\ nativeCalls = ExpectedRun.calls
        /\ ExpectedRun.step \in BeforeLampCount => n_lamps = 0
        /\ ExpectedRun.step \in BeforeArrays
              => power = <<>> /\ efficiency = <<>>
        /\ ExpectedRun.step = "power" => efficiency = DefaultEfficiency(n_lamps)
        /\ redArgs.called <=> ExpectedRun.step \in {"call", "result", "none"}
\* Flow out of range together with a lamp key that is never valid: the
\* range failure is returned and the lamp count was never asked for.
C28_Witness ==
    /\ Returned
    /\ ExpectedRun.step = "bounds"
    /\ HasKeyIn(req.power_settings, NeverALamp)
    /\ RangeFailure(outcome)
    /\ "flow" \in DOMAIN outcome.error.errors
    /\ nativeCalls = <<>>
    /\ ~answers.lamp_count.asked

\* A call that has returned did what it does alone: its outcome and its
\* native calls are those of its own request and of what the native
\* functions answered to it, and the vectors it passed to the RED function
\* are the ones built from its own settings.
RanAsAlone(f) ==
    LET run == ExpectedRunOf(f.req, f.answers)
        n == f.n_lamps
    IN  /\ f.outcome = run.value
        /\ f.nativeCalls = run.calls
        /\ f.redArgs.called
             => /\ f.redArgs.power =
                     ProcessSettings(DefaultPower(n), f.req.power_settings,
                                     n).arr
                /\ f.redArgs.efficiency =
                     ProcessSettings(DefaultEfficiency(n),
                                     f.req.efficiency_settings, n).arr
                /\ f.redArgs.flow = f.req.flow
                /\ f.redArgs.uvt = f.req.uvt
                /\ f.redArgs.n_lamps = n
TwoThreads == parked.pc # "none"
\* C29: two calculate_red calls running concurrently on one REDLibrary do
\* not interfere: under every interleaving of their steps each call
\* returns what it returns when it runs alone, and passes to the native
\* function the vectors built from its own request.
C29_ConcurrentCallsIndependent ==
    /\ (TwoThreads /\ pc = "done") => RanAsAlone(RunningFrame)
    /\ (TwoThreads /\ parked.pc = "done") => RanAsAlone(parked)
\* Both calls have returned a success, with different power vectors, and
\* the threads were switched while both calls were under way.
C29_Witness ==
    /\ pc = "done" /\ parked.pc = "done"
    /\ thread = 1
    /\ SuccessVariant(outcome) /\ SuccessVariant(parked.outcome)
    /\ redArgs.power # parked.redArgs.power
    /\ req.power_settings # parked.req.power_settings

\* ------------------------------------------------------ claims on the server
LoginRoute == [method |-> "POST", handler |-> "login", path |-> "/login"]
Imported == server \notin {"absent", "loading"}
\* C27: once server.py has been imported, the import has not failed and
\* the application holds the login route as POST '/login': every attribute
\* of CONFIG a route decorator reads is defined.
C27_LoginRouteRegistered ==
    Imported
        => /\ server # "import_failed"
           /\ \E i \in 1 .. Len(routes) : routes[i] = LoginRoute

Hosted == server # "absent"
\* C24: when the constructor of REDLibrary fails during startup (the load
\* or the binding), the server does not come to serve: init_calculator is
\* called once, the server serves only with a ready calculator, and no
\* handler calls into the calculator, nor is calculate_red under way, while
\* the calculator is None or its constructor failed.
C24_FailedStartupNeverServes ==
    Hosted
        => /\ inits <= 1
           /\ server = "serving" => (ctor = "ready" /\ calculator = "REDLibrary")
           /\ ctor = "failed"
                => /\ server \in {"starting", "aborted"}
                   /\ calculator = "None"
                   /\ http = NoHttp
                   /\ pc = "idle"
           /\ (http.called \/ InCalculateRed)
                => /\ server = "serving"
                   /\ calculator = "REDLibrary"
                   /\ ctor = "ready"
\* The library loaded, a binding failed, and the startup was aborted after
\* the one call of init_calculator.
C24_Witness ==
    /\ server = "aborted"
    /\ inits = 1
    /\ ctor = "failed"
    /\ lib = "CDLL"
    /\ bound # FunctionAttributes
    /\ calculator = "None"

CalculateAnswered == http.handler = "calculate" /\ http.hpc = "responded"
\* A body of POST /calculate as the tests send it: every field within its
\* bounds, Application one of the listed types or 'Municipal', the system a
\* supported one with limits in the catalog, flow and UVT inside them.
ClaimedValid(p) ==
    LET system_type == convert_to_system_type(p.Module, p.Model)
        limits == GetParameterRanges(document, system_type)
    IN  /\ p.Application \in APPLICATION_TYPES \cup {"Municipal"}
        /\ p.Position \in POSITION_TYPES
        /\ p.Efficiency >= 0 /\ p.Efficiency <= 10000
        /\ p.Relative_Drive >= 0 /\ p.Relative_Drive <= 10000
        /\ system_type \in IndexedSystems
        /\ limits.found
        /\ ~OutOfRange(p.Flow_Rate, limits.flow)
        /\ ~OutOfRange(p.UVT_1cm_254nm, limits.uvt)
\* C26: POST /calculate with a valid body, for a supported system with
\* in-range flow and UVT, is answered 200; so is the tests' valid request,
\* whose Application is 'Municipal'.
C26_ValidRequestAnswered200 ==
    (CalculateAnswered /\ ClaimedValid(http.payload)) => http.status = 200

RedFailed == outcome = PyNone \/ outcome.status # "success"
====
